---------------------------- MODULE Spec2Model ----------------------------
(***************************************************************************)
(* State-machine model of the WBS loaders of cloudflare_db_test:           *)
(*   - the two-column loader     src/wbs_loader.py    (WBSD1Manager)       *)
(*   - the 23-column loader      src/wbs_loader_v2.py (WBSBulkLoader)      *)
(*   - the record normalizer     src/wbs_loader_v2.py (WBSDataProcessor)   *)
(*                                                                         *)
(*   - the remote query client   D1Client.query, in each script            *)
(*   - the start of every script: configuration loading and what follows   *)
(* together with the remote table the statements of the loaders act on.    *)
(*                                                                         *)
(* Python values are tagged records: None, a str (a tuple of characters),  *)
(* an int, a float (whole part and tenths) or a bool.  The remote store is *)
(* SQLite (Cloudflare D1); a table is the sequence of its rows in          *)
(* insertion order.                                                        *)
(***************************************************************************)
EXTENDS Integers, Sequences, FiniteSets, TLC

\* ------------------------------------------------------------------ bounds
MaxRecs == 3        \* longest record sequence handed to a loader
MaxBatch == 3       \* largest batch_size tried
MaxRows == 3        \* most rows of a spreadsheet handed to the normalizer
MaxCalls == 3       \* most calls of query made on one client
MaxRequests == 2    \* most requests sent to the web application
MaxOps == 3         \* most calls made on one lister
MaxClock == 600     \* the latest time the clock gets to, in seconds

\* ------------------------------------------------------------------ values
None == [t |-> "None"]
NaN == [t |-> "nan"]                 \* float('nan'): a blank spreadsheet cell
StrV(s) == [t |-> "str", s |-> s]
IntV(n) == [t |-> "int", n |-> n]
FloatV(n, f) == [t |-> "float", n |-> n, f |-> f]   \* the float n.f, f one digit
BoolV(b) == [t |-> "bool", b |-> b]

IsNone(v) == v.t = "None"
IsNa(v) == v.t \in {"None", "nan"}   \* pd.isna(v)

Range(s) == {s[j] : j \in 1..Len(s)}

\* str.strip(): the characters without leading and trailing whitespace.
RECURSIVE LStrip(_)
LStrip(chars) ==
    IF chars # << >> /\ Head(chars) = " " THEN LStrip(Tail(chars)) ELSE chars
RECURSIVE RStrip(_)
RStrip(chars) ==
    IF chars # << >> /\ chars[Len(chars)] = " "
    THEN RStrip(SubSeq(chars, 1, Len(chars) - 1)) ELSE chars
Strip(chars) == RStrip(LStrip(chars))

\* str(n) of a non-negative int, and the int a run of digits spells.
DigitChars == << "0", "1", "2", "3", "4", "5", "6", "7", "8", "9" >>
RECURSIVE Digits(_)
Digits(n) ==
    IF n < 10 THEN << DigitChars[n + 1] >>
    ELSE Append(Digits(n \div 10), DigitChars[(n % 10) + 1])
IsDigits(chars) == chars # << >> /\ \A j \in 1..Len(chars) : chars[j] \in Range(DigitChars)
DigitValue(c) == (CHOOSE d \in 1..10 : DigitChars[d] = c) - 1
RECURSIVE IntOfDigits(_)
IntOfDigits(chars) ==
    IF Len(chars) = 1 THEN DigitValue(chars[1])
    ELSE 10 * IntOfDigits(SubSeq(chars, 1, Len(chars) - 1)) + DigitValue(chars[Len(chars)])

\* str(value).
PyStr(value) ==
    CASE value.t = "int" -> StrV(Digits(value.n))
      [] value.t = "float" -> StrV(Digits(value.n) \o << ".", DigitChars[value.f + 1] >>)
      [] value.t = "bool" ->
           IF value.b THEN StrV(<< "T", "r", "u", "e" >>)
           ELSE StrV(<< "F", "a", "l", "s", "e" >>)
      [] value.t = "nan" -> StrV(<< "n", "a", "n" >>)
      [] value.t = "None" -> StrV(<< "N", "o", "n", "e" >>)
      [] OTHER -> value

\* str.upper() on the letters the model uses.
LowerChars == << "a", "e", "f", "l", "n", "o", "r", "s", "t", "u", "x", "y" >>
UpperChars == << "A", "E", "F", "L", "N", "O", "R", "S", "T", "U", "X", "Y" >>
UpperChar(c) ==
    IF c \in Range(LowerChars)
    THEN UpperChars[CHOOSE k \in 1..Len(LowerChars) : LowerChars[k] = c]
    ELSE c
Upper(chars) == [k \in 1..Len(chars) |-> UpperChar(chars[k])]

\* ----------------------------------------------------- the remote table
\* SQL equality of two values: NULL is equal to nothing, itself included.
SqlEq(a, b) == ~IsNone(a) /\ ~IsNone(b) /\ a = b

\* Whether a row with this primary key conflicts with a stored row.  The key
\* column is declared TEXT PRIMARY KEY in a rowid table, which is a unique
\* index that does not imply NOT NULL: NULL keys never conflict.
KeyConflict(table, cde) == \E j \in 1..Len(table) : SqlEq(table[j].cde, cde)

\* INSERT OR REPLACE of one row: a conflicting row is deleted first (what
\* insert_wbs_record does, which no load run calls).
InsertOrReplaceRow(table, row) ==
    SelectSeq(table, LAMBDA r : ~SqlEq(r.cde, row.cde)) \o <<row>>

\* INSERT OR IGNORE of one row: a conflicting row makes the new row be skipped.
InsertOrIgnoreRow(table, row) ==
    IF KeyConflict(table, row.cde) THEN table ELSE Append(table, row)

\* INSERT OR IGNORE ... VALUES (..), (..), ...: the rows are taken in order,
\* each against the table as the rows before it left it.
RECURSIVE InsertOrIgnore(_, _)
InsertOrIgnore(table, rows) ==
    IF rows = <<>> THEN table
    ELSE InsertOrIgnore(InsertOrIgnoreRow(table, Head(rows)), Tail(rows))

\* INSERT ... SELECT ?, ? WHERE NOT EXISTS (SELECT 1 ... WHERE key = ?)
InsertWhereNotExists(table, row, probe) ==
    IF \E j \in 1..Len(table) : SqlEq(table[j].cde, probe)
    THEN table ELSE Append(table, row)

\* ------------------------------------------------ the response envelope
\* A JSON object is a function from its keys; dict.get(key, default):
EmptyDict == [k \in {} |-> 0]
Get(d, k, default) == IF k \in DOMAIN d THEN d[k] ELSE default

\* The envelope D1Client.query returns for a mutating statement that changed
\* n rows, by the format the service answers in:
\*   "changes"    {"success": true, "result": [{"meta": {"changes": n}}]}
\*   "nochanges"  {"success": true, "result": [{"meta": {}}]}
\*   "noresult"   {"success": true, "result": []}
Formats == {"changes", "nochanges", "noresult"}
Envelope(format, n) ==
    CASE format = "changes" ->
           [success |-> TRUE, result |-> << [meta |-> [changes |-> n]] >>]
      [] format = "nochanges" ->
           [success |-> TRUE, result |-> << [meta |-> EmptyDict] >>]
      [] format = "noresult" ->
           [success |-> TRUE, result |-> << >>]
NoResp == EmptyDict

\* result.get("result", []) ... result_data[0].get("meta", {}).get("changes", 0)
\* (ChangesMut: the extraction with the default 1 in place of 0.)
ChangesMut(result) ==
    LET result_data == Get(result, "result", <<>>)
    IN  IF Len(result_data) > 0
        THEN Get(Get(result_data[1], "meta", EmptyDict), "changes", 1)
        ELSE 1
Changes(result) ==
    LET result_data == Get(result, "result", <<>>)
    IN  IF Len(result_data) > 0
        THEN Get(Get(result_data[1], "meta", EmptyDict), "changes", 0)
        ELSE 0

\* ------------------------------------------------------- D1Client.query
\* The scripts that talk to the database; each defines its own D1Client.
Scripts == {"wbs_loader", "wbs_loader_v2", "list_wbs", "main", "check_wbs2", "app"}

\* What one urlopen(...) and json.loads(resp.read()) can give:
\*   "transport"  urlopen raises cls (URLError, TimeoutError): no response
\*   "http"       urlopen raises HTTPError: a response with status >= 400
\*   "badjson"    a 2xx response whose body json.loads rejects
\*   "json"       a 2xx response with the JSON object data
\* (the errors list of an envelope is carried as its text)
FailedEnvelopes ==
    { [success |-> FALSE, errors |-> "[no such table]", result |-> << >>],
      [success |-> FALSE, errors |-> "[table already exists]"],
      [errors |-> "[syntax error]"],
      [result |-> << >>] }
TransportExchanges ==
    { [kind |-> "transport", cls |-> "URLError", detail |-> "unreachable"],
      [kind |-> "transport", cls |-> "TimeoutError", detail |-> "timed out"] }
HttpExchanges ==
    { [kind |-> "http", code |-> c, reason |-> "error", raw |-> r] :
        c \in {"400", "500"}, r \in {"", "body"} }
JsonFailures == { [kind |-> "json", data |-> d] : d \in FailedEnvelopes }
BadJson == { [kind |-> "badjson", detail |-> "Expecting value"] }
FailingExchanges == TransportExchanges \cup HttpExchanges \cup JsonFailures \cup BadJson
\* One failing exchange of each kind, for the statements of the loaders.
StatementFailures ==
    { [kind |-> "transport", cls |-> "URLError", detail |-> "unreachable"],
      [kind |-> "http", code |-> "500", reason |-> "error", raw |-> "body"],
      [kind |-> "json", data |-> [success |-> FALSE, errors |-> "[no such table]"]],
      [kind |-> "badjson", detail |-> "Expecting value"] }
OkExchanges ==
    { [kind |-> "json", data |-> Envelope(f, n)] : f \in Formats, n \in 0..1 }
Exchanges == OkExchanges \cup FailingExchanges

\* raise cls(msg): the message is the tuple of the parts the f-string joins.
Raise(cls, msg) == [raised |-> TRUE, exc |-> [cls |-> cls, msg |-> msg]]
Return(value) == [raised |-> FALSE, value |-> value]

\* The check both clients end with:
\*   if not data.get("success", False): raise RuntimeError(...); return data
CheckSuccess(data) ==
    IF ~Get(data, "success", FALSE)
    THEN Raise("RuntimeError", << "D1 query failed: ", Get(data, "errors", "None") >>)
    ELSE Return(data)

\* D1Client.query of wbs_loader.py, list_wbs.py, main.py, check_wbs2.py and
\* app.py: only HTTPError is caught; any other exception of urlopen or
\* json.loads leaves query as it is.
QueryPlain(ex) ==
    CASE ex.kind = "http" -> Raise("RuntimeError", << "HTTP ", ex.code, ex.reason, ex.raw >>)
      [] ex.kind = "transport" -> Raise(ex.cls, << ex.detail >>)
      [] ex.kind = "badjson" -> Raise("JSONDecodeError", << ex.detail >>)
      [] ex.kind = "json" -> CheckSuccess(ex.data)

\* D1Client.query of wbs_loader_v2.py: every other exception is wrapped,
\* RuntimeError(f"D1 query failed: {str(e)}").
QueryWrapping(ex) ==
    CASE ex.kind = "http" -> Raise("RuntimeError", << "HTTP ", ex.code, ex.reason, ex.raw >>)
      [] ex.kind = "transport" -> Raise("RuntimeError", << "D1 query failed: ", ex.detail >>)
      [] ex.kind = "badjson" -> Raise("RuntimeError", << "D1 query failed: ", ex.detail >>)
      [] ex.kind = "json" -> CheckSuccess(ex.data)

\* query of the client of a script, on the exchange its one request had.
Query(script, ex) ==
    IF script = "wbs_loader_v2" THEN QueryWrapping(ex) ELSE QueryPlain(ex)

\* except Exception / except RuntimeError: the classes the clause catches.
ExceptionClasses == {"RuntimeError", "URLError", "TimeoutError", "JSONDecodeError",
                     "ValueError", "TypeError", "ZeroDivisionError"}
CatchesRuntimeError(exc) == exc.cls = "RuntimeError"
CatchesException(exc) == exc.cls \in ExceptionClasses

\* ------------------------------------------------------------ the state
VARIABLES
    loader,            \* "v1": wbs_loader.py, "v2": wbs_loader_v2.py
    format,            \* the format the service answers mutating statements in
    records,           \* the record sequence handed to the loader
    batch_size,        \* batch_size (positive)
    store,             \* the remote table: its rows in insertion order
    run,               \* 1: the first load run, 2: a re-run on the same records
    pc,                \* "start", "bulk", "fallback", "done", "raised"
    batch_start,       \* loop variable of the batch loop (0-based offset)
    q,                 \* v2: position in the batch of _execute_batch_queries
    i,                 \* position in the batch of the per-record fallback
    successful_count,  \* v1 fallback: successful_count
    skipped_count,     \* v1 fallback: skipped_count
    total_successful,  \* v1: total_successful
    total_skipped,     \* v1: total_skipped
    successful_batches,\* v2: successful_batches
    failed_records,    \* v2: failed_records
    failures,          \* v2 fallback: failures
    resp,              \* the envelope of the last successful remote call
    hist               \* history of the run, kept for the properties

loaderVars ==
    << loader, format, records, batch_size, store, run, pc, batch_start, q, i,
       successful_count, skipped_count, total_successful, total_skipped,
       successful_batches, failed_records, failures, resp, hist >>

\* The state of the normalizer (WBSDataProcessor).
VARIABLES
    excel,             \* the workbook: [columns: its header, rows: its data rows]
    df,                \* self.df: the frame read_excel returned
    df_clean,          \* df_clean of clean_and_validate_data
    npc,               \* "idle", "new", "loaded", "failed", "cleaned", "raised"
    duplicates,        \* clean_and_validate_data: duplicates (printed when > 0)
    returned           \* the values clean_and_validate_data returned to its caller

normVars == << excel, df, df_clean, npc, duplicates, returned >>

\* The state of a script of the repository from its start.
VARIABLES
    entry,             \* the script that runs ("none": no script is modelled)
    env,               \* the environment: setting name -> None, "" or a value
    epc,               \* "idle", "start", "configured", "created", "cleared",
                       \* "inserted", "serving", "exit"
    exit_status,       \* exit status of the process once epc = "exit"
    error,             \* the setting names of the configuration error printed
    remote_calls,      \* calls of D1Client.query the script has made
    served             \* HTTP requests the web application has answered

entryVars == << entry, env, epc, exit_status, error, remote_calls, served >>

\* The state of one D1Client.
VARIABLES
    client,            \* the script whose D1Client it is
    calls,             \* calls of query so far
    http_requests,     \* requests urlopen has sent so far
    outcome            \* the last call of query: the exchange its request had
                       \* and what the call gave its caller

clientVars == << client, calls, http_requests, outcome >>

\* The remote database as the table setup of a loader finds and leaves it,
\* and the steps main has taken.
VARIABLES
    db,                \* the table of the script: [exists, dated, rows]; dated:
                       \* it has the column CREATE_DATE
    db0,               \* db when the script started
    trace,             \* the steps of main so far, in order
    batches_done,      \* batches the batch loop of main's insert has finished
    create_outcome     \* the last CREATE TABLE of the setup: "none" (not sent),
                       \* "ok", "exists" (it failed with the text "already
                       \* exists"), "failed" (it failed with another text)

setupVars == << db, db0, trace, batches_done, create_outcome >>

\* The state of a WBSLister (app.py: with its read cache; list_wbs.py:
\* without one) and the clock time.time() reads.
VARIABLES
    lister,            \* the script whose WBSLister it is ("none": none)
    cache,             \* self._cache: cache key -> [present, data, timestamp]
    now,               \* time.time(), in seconds
    lister_queries,    \* calls of self.d1.query the lister has made
    ops,               \* calls of the lister's methods so far
    last_call          \* the last call: its method and key, whether it was
                       \* answered from the cache, whether it raised, its value

listerVars == << lister, cache, now, lister_queries, ops, last_call >>

serviceVars == << setupVars, listerVars >>

scriptVars == << normVars, entryVars, clientVars, serviceVars >>

vars == << loaderVars, normVars, entryVars, clientVars, serviceVars >>

\* No table setup is modelled.
NoTable == [exists |-> FALSE, dated |-> FALSE, rows |-> << >>]
SetupIdle ==
    /\ db = NoTable /\ db0 = NoTable /\ trace = << >> /\ batches_done = 0
    /\ create_outcome = "none"
\* No lister is modelled.
CacheKeys == {"wbs_items_None_0", "wbs_items_1_0", "wbs_count"}
ListV(items) == [t |-> "list", v |-> items]
NoEntry == [present |-> FALSE, data |-> ListV(<< >>), timestamp |-> 0]
EmptyCache == [key \in CacheKeys |-> NoEntry]
NoCall == [op |-> "none", key |-> "none", hit |-> FALSE, raised |-> FALSE,
           value |-> ListV(<< >>)]
ListerIdle ==
    /\ lister = "none" /\ cache = EmptyCache /\ now = 0
    /\ lister_queries = 0 /\ ops = 0 /\ last_call = NoCall
ServiceIdle == SetupIdle /\ ListerIdle

\* The normalizer is not running.
NoSheet == [columns |-> {}, rows |-> << >>]
NormIdle ==
    /\ excel = NoSheet /\ df = << >> /\ df_clean = << >> /\ npc = "idle"
    /\ duplicates = 0 /\ returned = << >>

\* ------------------------------------------------------------ the inputs
A == StrV(<<"A">>)
B == StrV(<<"B">>)
X == StrV(<<"x">>)
Y == StrV(<<"y">>)
Empty == StrV(<< >>)

\* Rows of the two-column spreadsheet as WBSExcelLoader.get_wbs_records
\* returns them: a blank cell is None, a cell may hold the empty string.
V1Records ==
    { r \in [WBS_ELEMENT_CDE : {A, B, Empty, None}, WBS_ELEMENT_NME : {X, Y}] :
        r.WBS_ELEMENT_NME = Y => r.WBS_ELEMENT_CDE = A }

\* The sequences over S of length at most n.
RECURSIVE SeqsUpTo(_, _)
SeqsUpTo(S, n) ==
    IF n = 0 THEN {<< >>}
    ELSE LET shorter == SeqsUpTo(S, n - 1)
         IN  shorter \cup {Append(s, e) : s \in {t \in shorter : Len(t) = n - 1}, e \in S}

\* Tables the load can start from (rows written at time 0).
V1Stores ==
    { << >>,
      << [cde |-> A, desc |-> Y, created |-> 0],
         [cde |-> None, desc |-> Y, created |-> 0] >> }

\* ============================================== configuration loading
\* D1Config.from_env, the same in every script: a setting that is unset
\* (os.getenv gives None) or empty is missing; the error names the missing
\* settings in the order they are tested.
SettingNames == << "CF_ACCOUNT_ID", "CF_D1_DATABASE_ID", "CF_API_TOKEN" >>
Settings == Range(SettingNames)
Secret == StrV(<< "s" >>)
Environments == [Settings -> {None, Empty, Secret}]
Falsy(value) == IsNone(value) \/ value = Empty
\* (MissingSettingsMut: the test stops at the first missing setting.)
MissingSettingsMut(environment) ==
    LET missing == SelectSeq(SettingNames, LAMBDA name : Falsy(environment[name]))
    IN  IF missing = << >> THEN missing ELSE << Head(missing) >>
MissingSettings(environment) ==
    SelectSeq(SettingNames, LAMBDA name : Falsy(environment[name]))
from_env(environment) ==
    LET missing == MissingSettings(environment)
    IN  IF missing # << >>
        THEN Raise("RuntimeError", << "Missing environment variables: " >> \o missing)
        ELSE Return([ account_id  |-> environment["CF_ACCOUNT_ID"],
                      database_id |-> environment["CF_D1_DATABASE_ID"],
                      api_token   |-> environment["CF_API_TOKEN"] ])
FullEnvironment == [name \in Settings |-> Secret]
NoError == [cls |-> "none", msg |-> << >>]

\* No script is modelled / no client is modelled.
EntryIdle ==
    /\ entry = "none" /\ env = FullEnvironment /\ epc = "idle"
    /\ exit_status = 0 /\ error = NoError /\ remote_calls = 0 /\ served = 0
NoOutcome == [exchange |-> [kind |-> "none"], result |-> Return(NoResp)]
ClientIdle ==
    /\ client = "none" /\ calls = 0 /\ http_requests = 0 /\ outcome = NoOutcome

\* main of wbs_loader_v2.py after D1Config.from_env() returned a
\* configuration and the processor and the loader were constructed.
V2Configured ==
    /\ entry = "wbs_loader_v2" /\ env = FullEnvironment /\ epc = "configured"
    /\ exit_status = 0 /\ error = NoError /\ remote_calls = 0 /\ served = 0

\* except Exception as e: print(...); sys.exit(1)  (main of wbs_loader_v2.py)
V2MainFails(exc) ==
    /\ epc' = "exit" /\ exit_status' = 1 /\ error' = exc
    /\ UNCHANGED << entry, env, remote_calls, served >>

\* ----------------------------------------------- wbs_loader.py: batches
\* batch_end = min(batch_start + batch_size, len(records)); BatchEndMut is
\* the slice that runs one record into the next batch.
BatchEndMut(start) ==
    IF start + batch_size + 1 < Len(records) THEN start + batch_size + 1 ELSE Len(records)
BatchEnd(start) == IF start + batch_size < Len(records) THEN start + batch_size ELSE Len(records)

BatchRecords(start) == SubSeq(records, start + 1, BatchEnd(start))

\* None if value == "" else value
ParamOf(value) == IF value = Empty THEN None ELSE value

\* The row one record becomes: its two parameters and CURRENT_TIMESTAMP.
V1Row(record) ==
    [ cde  |-> ParamOf(Get(record, "WBS_ELEMENT_CDE", Empty)),
      desc |-> ParamOf(Get(record, "WBS_ELEMENT_NME", Empty)),
      created |-> run ]

\* (V1RowsMut: a loader that leaves the records without a key out.)
V1RowsMut(batch) ==
    LET keyed == SelectSeq(batch, LAMBDA record : ~IsNone(V1Row(record).cde))
    IN  [j \in 1..Len(keyed) |-> V1Row(keyed[j])]
V1Rows(batch) == [j \in 1..Len(batch) |-> V1Row(batch[j])]

\* ------------------------------------------- wbs_loader_v2.py: values
\* Rows of the cleaned frame (three of the 23 columns: the TEXT key, a TEXT
\* column and the INTEGER column): text is stripped and not blank, missing
\* values are None, and the key is unique after drop_duplicates.
V2Records ==
    [WBS_ELEMENT_CDE : {A, B, None}, WBS_ELEMENT_NME : {X}, PROJ_FY : {IntV(2024), None}]

UniqueKeys(recs) ==
    \A j, k \in 1..Len(recs) :
        recs[j].WBS_ELEMENT_CDE = recs[k].WBS_ELEMENT_CDE => j = k

V2Stores ==
    { << >>,
      << [cde |-> A, nme |-> Y, fy |-> None, created |-> 0],
         [cde |-> None, nme |-> Y, fy |-> None, created |-> 0] >> }

\* The parameter bulk_insert_data builds for one value: None for a missing
\* value, a number as it is, anything else as stripped text or None.
BulkValue(value) ==
    IF IsNone(value) THEN None
    ELSE IF value.t = "int" THEN value
    ELSE LET str_value == Strip(PyStr(value).s)
         IN  IF str_value # << >> THEN StrV(str_value) ELSE None

\* The parameter _insert_batch_individually builds: every value that is not
\* missing goes through str().
IndividualValue(value) ==
    IF IsNone(value) THEN None
    ELSE LET str_value == Strip(PyStr(value).s)
         IN  IF str_value # << >> THEN StrV(str_value) ELSE None

\* Column affinity of the table: an INTEGER column stores text that spells
\* an integer as that integer; a TEXT column stores a number as its text.
IntegerAffinity(value) ==
    IF value.t = "str" /\ IsDigits(value.s) THEN IntV(IntOfDigits(value.s)) ELSE value
TextAffinity(value) == IF value.t = "int" THEN PyStr(value) ELSE value

\* The row INSERT OR IGNORE INTO wbs_2 (...) VALUES (?, ?, ?) offers.
V2Row(params) ==
    [ cde |-> TextAffinity(params[1]),
      nme |-> TextAffinity(params[2]),
      fy  |-> IntegerAffinity(params[3]),
      created |-> run ]

V2Columns == << "WBS_ELEMENT_CDE", "WBS_ELEMENT_NME", "PROJ_FY" >>
V2BulkParams(record) == [c \in 1..Len(V2Columns) |-> BulkValue(record[V2Columns[c]])]
V2IndividualParams(record) ==
    [c \in 1..Len(V2Columns) |-> IndividualValue(record[V2Columns[c]])]

\* ------------------------------------------------------ the run history
\* What the run did so far; the loaders neither read nor write it.
\*   store0       the table when the run started
\*   calls        remote calls issued
\*   failed_calls remote calls that raised
\*   raised       records whose per-record fallback insert raised
\*   stmt_batch   batch_start of the batch the last call belonged to (-1: none)
\*   open         whether that batch is still being processed
\*   before       the table when that batch started
\*   fb           the records (1-based positions) that batch's fallback submitted
\*   batch_raised the records of that batch whose fallback insert raised
\*   batches      batches finished
\*   first        after a re-run started: how the first run ended
NoFirst == [ran |-> FALSE]
FreshHist(table, first) ==
    [ store0 |-> table, calls |-> 0, failed_calls |-> 0, raised |-> 0,
      stmt_batch |-> -1, open |-> FALSE, before |-> table, fb |-> << >>,
      batch_raised |-> 0, batches |-> 0, first |-> first ]

\* One remote call of the batch at batch_start: ok or raising, and whether
\* the batch is finished by it.
Called(ok, finished) ==
    LET h == IF hist.open THEN hist
             ELSE [ hist EXCEPT !.before = store, !.fb = << >>, !.batch_raised = 0 ]
    IN  [ h EXCEPT !.calls = @ + 1,
                   !.failed_calls = IF ok THEN @ ELSE @ + 1,
                   !.stmt_batch = batch_start,
                   !.open = ~finished,
                   !.batches = IF finished THEN @ + 1 ELSE @ ]

\* ------------------------------------- wbs_loader.py: the batch loop
\* for batch_start in range(0, len(records), batch_size): the next value of
\* the loop variable, and whether the loop ends.  (NextBatchStartMut: a loop
\* that steps over every other batch.)
NextBatchStartMut == batch_start + batch_size + batch_size
NextBatchStart == batch_start + batch_size

LoopEnds == NextBatchStart >= Len(records)

\* range(start, stop, step) for a positive step, as the sequence of its
\* values.
RECURSIVE PyRange(_, _, _)
PyRange(start, stop, step) ==
    IF start >= stop THEN << >>
    ELSE << start >> \o PyRange(start + step, stop, step)

\* The batch count batch_insert_wbs_records reports in its method text:
\* len(range(0, len(records), batch_size)).
ReportedBatches == Len(PyRange(0, Len(records), batch_size))

\* batch_insert_wbs_records, up to the first remote call.
V1Start ==
    /\ loader = "v1" /\ pc = "start"
    /\ IF records = << >>
       THEN pc' = "done"                      \* return 0, 0, "No records"
       ELSE pc' = "bulk"
    /\ batch_start' = 0
    /\ total_successful' = 0 /\ total_skipped' = 0
    /\ UNCHANGED scriptVars
    /\ UNCHANGED << loader, format, records, batch_size, store, run, q, i,
                    successful_count, skipped_count, successful_batches,
                    failed_records, failures, resp, hist >>

\* (V1BatchReturnsMut: the totals are assigned the counts of the batch
\* in place of growing by them.)
V1BatchReturnsMut(batch_successful, batch_skipped) ==
    /\ total_successful' = batch_successful
    /\ total_skipped' = batch_skipped
    /\ IF NextBatchStart >= Len(records)
       THEN pc' = "done" /\ batch_start' = batch_start
       ELSE pc' = "bulk" /\ batch_start' = NextBatchStart

\* The end of one batch: the totals take the batch's counts and the loop
\* goes to the next batch or returns.
V1BatchReturns(batch_successful, batch_skipped) ==
    /\ total_successful' = total_successful + batch_successful
    /\ total_skipped' = total_skipped + batch_skipped
    /\ IF LoopEnds
       THEN pc' = "done" /\ batch_start' = batch_start
       ELSE pc' = "bulk" /\ batch_start' = NextBatchStart

\* _process_batch: the bulk INSERT OR IGNORE succeeds.
V1BulkOk ==
    /\ loader = "v1" /\ pc = "bulk"
    /\ LET batch == BatchRecords(batch_start)
           after == InsertOrIgnore(store, V1Rows(batch))
       IN  /\ store' = after
           /\ LET result == Envelope(format, Len(after) - Len(store))
                   changes == Changes(result)
                   skipped == Len(batch) - changes
               IN  /\ resp' = result
                   /\ V1BatchReturns(changes, skipped)
           /\ hist' = Called(TRUE, TRUE)
    /\ UNCHANGED scriptVars
    /\ UNCHANGED << loader, format, records, batch_size, run, q, i, successful_count,
                    skipped_count, successful_batches, failed_records, failures >>

\* _process_batch: the bulk statement raises (transport, HTTP status,
\* unparseable body or success = false); the table is as before.  except
\* Exception catches it and the fallback starts; an exception the clause
\* does not catch would leave batch_insert_wbs_records.
V1BulkFails ==
    /\ loader = "v1" /\ pc = "bulk"
    /\ \E ex \in StatementFailures :
          IF CatchesException(Query("wbs_loader", ex).exc)
          THEN /\ pc' = "fallback"
               /\ hist' = Called(FALSE, FALSE)
          ELSE /\ pc' = "raised"
               /\ hist' = Called(FALSE, TRUE)
    /\ i' = 1
    /\ successful_count' = 0 /\ skipped_count' = 0
    /\ UNCHANGED scriptVars
    /\ UNCHANGED << loader, format, records, batch_size, store, run, batch_start, q,
                    total_successful, total_skipped, successful_batches,
                    failed_records, failures, resp >>

\* The end of one iteration of the fallback loop with the counts it left.
V1FallbackNext(succ, skip) ==
    IF i = Len(BatchRecords(batch_start))
    THEN /\ V1BatchReturns(succ, skip)       \* return successful_count, skipped_count
         /\ i' = i
         /\ successful_count' = succ /\ skipped_count' = skip
    ELSE /\ i' = i + 1
         /\ successful_count' = succ /\ skipped_count' = skip
         /\ UNCHANGED << pc, batch_start, total_successful, total_skipped >>

\* _fallback_batch_individual_inserts: the insert of record i succeeds.
V1FallbackOk ==
    /\ loader = "v1" /\ pc = "fallback"
    /\ LET batch == BatchRecords(batch_start)
           row == V1Row(batch[i])
           after == InsertWhereNotExists(store, row, row.cde)
           last == i = Len(batch)
       IN  /\ store' = after
           /\ LET result == Envelope(format, Len(after) - Len(store))
               IN  /\ resp' = result
                   /\ IF Changes(result) > 0
                      THEN V1FallbackNext(successful_count + 1, skipped_count)
                      ELSE V1FallbackNext(successful_count, skipped_count + 1)
           /\ hist' = [ Called(TRUE, last) EXCEPT !.fb = Append(@, batch_start + i) ]
    /\ UNCHANGED scriptVars
    /\ UNCHANGED << loader, format, records, batch_size, run, q, successful_batches,
                    failed_records, failures >>

\* A fallback in which a raising insert ends the run.
V1FallbackRaisesMut ==
    /\ loader = "v1" /\ pc = "fallback"
    /\ pc' = "done"
    /\ hist' = [ Called(FALSE, TRUE) EXCEPT
                   !.raised = @ + 1,
                   !.batch_raised = @ + 1,
                   !.fb = Append(@, batch_start + i) ]
    /\ UNCHANGED scriptVars
    /\ UNCHANGED << loader, format, records, batch_size, store, run, batch_start,
                    q, i, successful_count, skipped_count, total_successful,
                    total_skipped, successful_batches, failed_records, failures,
                    resp >>

\* A fallback that sends the insert that raised once more.
V1FallbackRetryMut ==
    /\ loader = "v1" /\ pc = "fallback"
    /\ hist' = [ Called(FALSE, FALSE) EXCEPT !.raised = @ + 1, !.batch_raised = @ + 1 ]
    /\ UNCHANGED scriptVars
    /\ UNCHANGED << loader, format, records, batch_size, store, run, pc, batch_start,
                    q, i, successful_count, skipped_count, total_successful,
                    total_skipped, successful_batches, failed_records, failures,
                    resp >>

\* _fallback_batch_individual_inserts: the insert of record i raises.
V1FallbackRaises ==
    /\ loader = "v1" /\ pc = "fallback"
    /\ V1FallbackNext(successful_count, skipped_count + 1)
    /\ hist' = [ Called(FALSE, i = Len(BatchRecords(batch_start))) EXCEPT
                   !.raised = @ + 1,
                   !.batch_raised = @ + 1,
                   !.fb = Append(@, batch_start + i) ]
    /\ UNCHANGED scriptVars
    /\ UNCHANGED << loader, format, records, batch_size, store, run, q,
                    successful_batches, failed_records, failures, resp >>

\* ---------------------------------- wbs_loader_v2.py: bulk_insert_data
total_records == Len(records)

\* total_batches = (total_records + self.batch_size - 1) // self.batch_size,
\* printed with every batch.
total_batches == (total_records + batch_size - 1) \div batch_size

\* The final statistics: (successful_records / total_records) * 100 divides
\* by zero for an empty frame and the exception leaves bulk_insert_data.
V2FinalPc == IF total_records = 0 THEN "raised" ELSE "done"

\* bulk_insert_data, up to the first remote call.
V2Start ==
    /\ loader = "v2" /\ pc = "start"
    /\ successful_batches' = 0 /\ failed_records' = 0
    /\ batch_start' = 0 /\ q' = 1
    /\ pc' = IF total_records = 0 THEN V2FinalPc ELSE "bulk"
    /\ UNCHANGED scriptVars
    /\ UNCHANGED << loader, format, records, batch_size, store, run, i,
                    successful_count, skipped_count, total_successful,
                    total_skipped, failures, resp, hist >>

\* The end of one iteration of the batch loop.
V2BatchEnds ==
    IF LoopEnds
    THEN pc' = V2FinalPc /\ batch_start' = batch_start /\ q' = q
    ELSE pc' = "bulk" /\ batch_start' = NextBatchStart /\ q' = 1

\* _execute_batch_queries: the INSERT OR IGNORE of record q succeeds.
V2QueryOk ==
    /\ loader = "v2" /\ pc = "bulk"
    /\ LET batch == BatchRecords(batch_start)
           last == q = Len(batch)
       IN  /\ store' = InsertOrIgnoreRow(store, V2Row(V2BulkParams(batch[q])))
           /\ IF last
              THEN /\ successful_batches' = successful_batches + 1
                   /\ V2BatchEnds
              ELSE /\ q' = q + 1
                   /\ UNCHANGED << successful_batches, pc, batch_start >>
           /\ hist' = Called(TRUE, last)
    /\ UNCHANGED scriptVars
    /\ UNCHANGED << loader, format, records, batch_size, run, i, successful_count,
                    skipped_count, total_successful, total_skipped,
                    failed_records, failures, resp >>

\* _execute_batch_queries: the INSERT OR IGNORE of record q raises; the
\* records before q stay inserted and the whole batch goes to the fallback.
V2QueryFails ==
    /\ loader = "v2" /\ pc = "bulk"
    /\ failed_records' = failed_records + Len(BatchRecords(batch_start))
    /\ \E ex \in StatementFailures :
          IF CatchesException(Query("wbs_loader_v2", ex).exc)
          THEN /\ pc' = "fallback"
               /\ hist' = Called(FALSE, FALSE)
          ELSE /\ pc' = "raised"
               /\ hist' = Called(FALSE, TRUE)
    /\ i' = 1 /\ failures' = 0
    /\ UNCHANGED scriptVars
    /\ UNCHANGED << loader, format, records, batch_size, store, run, batch_start,
                    q, successful_count, skipped_count, total_successful,
                    total_skipped, successful_batches, resp >>

\* (V2IndividualNextMut: the failures of the fallback are added without
\* taking the batch's length back.)
V2IndividualNextMut(fails) ==
    LET batch == BatchRecords(batch_start)
    IN  IF i = Len(batch)
        THEN /\ failed_records' = failed_records + fails
             /\ failures' = fails /\ i' = i
             /\ V2BatchEnds
        ELSE /\ failures' = fails /\ i' = i + 1
             /\ UNCHANGED << failed_records, pc, batch_start, q >>

\* The end of one iteration of the loop of _insert_batch_individually.
V2IndividualNext(fails) ==
    LET batch == BatchRecords(batch_start)
    IN  IF i = Len(batch)
        THEN /\ failed_records' = failed_records - Len(batch) + fails
             /\ failures' = fails /\ i' = i
             /\ V2BatchEnds
        ELSE /\ failures' = fails /\ i' = i + 1
             /\ UNCHANGED << failed_records, pc, batch_start, q >>

\* _insert_batch_individually: the insert of record i succeeds.
V2IndividualOk ==
    /\ loader = "v2" /\ pc = "fallback"
    /\ LET batch == BatchRecords(batch_start)
       IN  /\ store' = InsertOrIgnoreRow(store, V2Row(V2IndividualParams(batch[i])))
           /\ V2IndividualNext(failures)
           /\ hist' = [ Called(TRUE, i = Len(batch)) EXCEPT
                          !.fb = Append(@, batch_start + i) ]
    /\ UNCHANGED scriptVars
    /\ UNCHANGED << loader, format, records, batch_size, run, successful_count,
                    skipped_count, total_successful, total_skipped,
                    successful_batches, resp >>

\* _insert_batch_individually: the insert of record i raises.
V2IndividualRaises ==
    /\ loader = "v2" /\ pc = "fallback"
    /\ V2IndividualNext(failures + 1)
    /\ hist' = [ Called(FALSE, i = Len(BatchRecords(batch_start))) EXCEPT
                   !.raised = @ + 1,
                   !.batch_raised = @ + 1,
                   !.fb = Append(@, batch_start + i) ]
    /\ UNCHANGED scriptVars
    /\ UNCHANGED << loader, format, records, batch_size, store, run,
                    successful_count, skipped_count, total_successful,
                    total_skipped, successful_batches, resp >>

\* The operator runs the loader again on the same records, after a first
\* run in which no call failed.
Reload ==
    /\ pc = "done" /\ run = 1
    /\ hist.failed_calls = 0
    /\ run' = 2
    /\ pc' = "start"
    /\ hist' = FreshHist(store, [ ran |-> TRUE, clean |-> hist.failed_calls = 0,
                                  store |-> store ])
    /\ resp' = NoResp
    /\ batch_start' = 0 /\ q' = 1 /\ i' = 1
    /\ successful_count' = 0 /\ skipped_count' = 0
    /\ total_successful' = 0 /\ total_skipped' = 0
    /\ successful_batches' = 0 /\ failed_records' = 0 /\ failures' = 0
    /\ UNCHANGED scriptVars
    /\ UNCHANGED << loader, format, records, batch_size, store >>

Init ==
    /\ \/ /\ loader = "v1"
          /\ format \in Formats
          /\ records \in SeqsUpTo(V1Records, MaxRecs)
          /\ store \in V1Stores
       \/ /\ loader = "v2"
          /\ format = "changes"
          /\ records \in {recs \in SeqsUpTo(V2Records, MaxRecs) : UniqueKeys(recs)}
          /\ store \in V2Stores
    /\ batch_size \in 1..MaxBatch
    /\ run = 1
    /\ pc = "start"
    /\ batch_start = 0 /\ q = 1 /\ i = 1
    /\ successful_count = 0 /\ skipped_count = 0
    /\ total_successful = 0 /\ total_skipped = 0
    /\ successful_batches = 0 /\ failed_records = 0 /\ failures = 0
    /\ resp = NoResp
    /\ hist = FreshHist(store, NoFirst)
    /\ NormIdle
    /\ EntryIdle
    /\ ClientIdle
    /\ ServiceIdle

Next ==
    \/ V1Start
    \/ V1BulkOk
    \/ V1BulkFails
    \/ V1FallbackOk
    \/ V1FallbackRaises
    \/ V2Start
    \/ V2QueryOk
    \/ V2QueryFails
    \/ V2IndividualOk
    \/ V2IndividualRaises
    \/ Reload

Spec == Init /\ [][Next]_vars

\* One run of batch_insert_wbs_records from its call to its return.  The
\* loader is sequential code and every remote call returns or raises (the
\* request carries a timeout), so a step that can be taken is taken.  The
\* records are drawn from one key, repeated or not, and the missing key:
\* which statement follows which does not depend on the cells.
RunRecords == { r \in V1Records : r.WBS_ELEMENT_CDE \in {A, None} /\ r.WBS_ELEMENT_NME = X }
InitV1 ==
    /\ Init
    /\ loader = "v1"
    /\ \A k \in 1..Len(records) : records[k] \in RunRecords
NextV1 ==
    \/ V1Start
    \/ V1BulkOk
    \/ V1BulkFails
    \/ V1FallbackOk
    \/ V1FallbackRaises
SpecV1Run == InitV1 /\ [][NextV1]_vars /\ WF_vars(NextV1)

\* ======================= wbs_loader_v2.py: WBSDataProcessor (normalizer)
\* The workbook is its header and its data rows, each row a function from
\* the header's column names to cells.  The model carries four of the 23
\* columns of the schema: the key, a text column, the integer column and an
\* indicator column; a workbook may lack some and may carry a column the
\* schema does not have.
KeyColumn == "WBS_ELEMENT_CDE"
SchemaColumns == {"WBS_ELEMENT_CDE", "WBS_ELEMENT_NME", "PROJ_FY", "ACCT_IND"}
ExtraColumn == "NOTES"
numeric_columns == {"PROJ_FY"}
indicator_columns == {"ACCT_IND"}

\* read_excel(..., na_values=[...]): a blank cell and a cell holding one of
\* the na_values strings are NaN in the frame.
na_values ==
    { << >>, << "N", "/", "A" >>, << "N", "U", "L", "L" >>, << "n", "u", "l", "l" >>,
      << "N", "o", "n", "e" >>, << "n", "o", "n", "e" >>, << "#", "N", "/", "A" >>,
      << "#", "N", "U", "L", "L", "!" >> }
ReadCell(cell) == IF cell.t = "str" /\ cell.s \in na_values THEN NaN ELSE cell
ReadExcel(rows) ==
    [j \in 1..Len(rows) |-> [col \in DOMAIN rows[j] |-> ReadCell(rows[j][col])]]

\* pd.to_numeric(v, errors='coerce') of one cell: a number stays, text that
\* spells a number becomes it, anything else becomes NaN.
IsDecimal(chars) ==
    /\ Len(chars) >= 3
    /\ chars[Len(chars) - 1] = "."
    /\ IsDigits(SubSeq(chars, 1, Len(chars) - 2))
    /\ IsDigits(<< chars[Len(chars)] >>)
ToNumeric(value) ==
    CASE value.t = "int" -> value
      [] value.t = "float" -> value
      [] value.t = "str" ->
           LET text == Strip(value.s)
           IN  IF IsDigits(text) THEN IntV(IntOfDigits(text))
               ELSE IF IsDecimal(text)
                    THEN FloatV(IntOfDigits(SubSeq(text, 1, Len(text) - 2)),
                                DigitValue(text[Len(text)]))
                    ELSE NaN
      [] OTHER -> NaN

\* .astype('Int64') of one cell of a numeric column: missing is <NA>, a
\* float with no fraction is its integer.  A float with a fraction makes
\* the cast of the whole column raise TypeError (cannot safely cast).
Fractional(value) == value.t = "float" /\ value.f # 0
AsInt64(value) ==
    IF IsNa(value) THEN None
    ELSE IF value.t = "float" THEN IntV(value.n)
    ELSE value
Int64Raises(frame) ==
    \E j \in 1..Len(frame) : \E col \in DOMAIN frame[j] :
        col = "PROJ_FY" /\ Fractional(ToNumeric(frame[j][col]))

\* Step 2: astype(str).str.strip(), then replace(['', 'nan', 'None',
\* 'NULL'], None).
NullTexts ==
    { << >>, << "n", "a", "n" >>, << "N", "o", "n", "e" >>, << "N", "U", "L", "L" >> }
CleanText(value) ==
    LET text == Strip(PyStr(value).s)
    IN  IF text \in NullTexts THEN None ELSE StrV(text)

\* _normalize_indicator  (NormalizeIndicatorMut: without .upper())
YesTexts == { << "Y" >>, << "Y", "E", "S" >>, << "T", "R", "U", "E" >>, << "1" >> }
NoTexts == { << "N" >>, << "N", "O" >>, << "F", "A", "L", "S", "E" >>, << "0" >> }
NormalizeIndicatorMut(value) ==
    IF IsNa(value) THEN None
    ELSE LET value_str == Strip(PyStr(value).s)
         IN  IF value_str \in YesTexts THEN StrV(<< "Y" >>)
             ELSE IF value_str \in NoTexts THEN StrV(<< "N" >>)
             ELSE None
NormalizeIndicator(value) ==
    IF IsNa(value) THEN None
    ELSE LET value_str == Upper(Strip(PyStr(value).s))
         IN  IF value_str \in YesTexts THEN StrV(<< "Y" >>)
             ELSE IF value_str \in NoTexts THEN StrV(<< "N" >>)
             ELSE None

\* Steps 1 to 4 on one cell of column col.
CleanCell(col, value) ==
    IF col \in numeric_columns THEN AsInt64(ToNumeric(value))
    ELSE IF col \in indicator_columns THEN NormalizeIndicator(CleanText(value))
    ELSE CleanText(value)

CleanRow(row) == [col \in DOMAIN row |-> CleanCell(col, row[col])]

\* Step 5: drop_duplicates(subset=['WBS_ELEMENT_CDE'], keep='first'): a row
\* stays when no earlier row has its key; missing keys are equal to each
\* other.  (DropDuplicatesMut: missing keys are never duplicates.)
DropDuplicatesMut(rows) ==
    LET keep == { j \in 1..Len(rows) :
                    IsNa(rows[j][KeyColumn]) \/
                    \A k \in 1..(j - 1) : rows[k][KeyColumn] # rows[j][KeyColumn] }
    IN  SelectSeq([j \in 1..Len(rows) |-> [pos |-> j, row |-> rows[j]]],
                  LAMBDA e : e.pos \in keep)
DropDuplicates(rows) ==
    LET keep == { j \in 1..Len(rows) :
                    \A k \in 1..(j - 1) : rows[k][KeyColumn] # rows[j][KeyColumn] }
    IN  SelectSeq([j \in 1..Len(rows) |-> [pos |-> j, row |-> rows[j]]],
                  LAMBDA e : e.pos \in keep)

\* Step 6: dropna(how='all'): a row goes when every column of it is missing.
\* (DropNaMut: only the columns of the schema are looked at.)
DropNaMut(entries) ==
    SelectSeq(entries,
              LAMBDA e : \E col \in DOMAIN e.row \cap SchemaColumns : ~IsNa(e.row[col]))
DropNa(entries) ==
    SelectSeq(entries, LAMBDA e : \E col \in DOMAIN e.row : ~IsNa(e.row[col]))

\* clean_and_validate_data when no step raises: the cleaned frame, each row
\* with the position (the index label) it had in self.df.
CleanAndValidate(frame) ==
    DropNa(DropDuplicates([j \in 1..Len(frame) |-> CleanRow(frame[j])]))

\* df_clean['WBS_ELEMENT_CDE'].duplicated().sum()
Duplicated(frame) ==
    LET cleaned == [j \in 1..Len(frame) |-> CleanRow(frame[j])]
    IN  Len(cleaned) - Len(DropDuplicates(cleaned))

\* Cells of the workbooks the normalizer is run on.
RawKeys == { StrV(<< "A" >>), StrV(<< " ", "A" >>), StrV(<< "B" >>), StrV(<< " " >>), NaN }
RawNames == { X, Y, NaN }
RawYears ==
    { IntV(2024), FloatV(2024, 0), FloatV(2024, 5), StrV(<< "2", "0", "2", "4" >>),
      StrV(<< "2", "0", "2", "4", ".", "5" >>), StrV(<< "F", "Y" >>), StrV(<< " " >>) }
RawIndicators ==
    { StrV(<< "y" >>), StrV(<< "Y" >>), StrV(<< "y", "e", "s" >>), StrV(<< "Y", "e", "s" >>),
      StrV(<< "T", "R", "U", "E" >>), StrV(<< "t", "r", "u", "e" >>), StrV(<< "1" >>),
      StrV(<< " ", "y", " " >>), IntV(1), BoolV(TRUE),
      StrV(<< "n" >>), StrV(<< "N" >>), StrV(<< "n", "o" >>), StrV(<< "N", "O" >>),
      StrV(<< "F", "A", "L", "S", "E" >>), StrV(<< "F", "a", "l", "s", "e" >>),
      StrV(<< "0" >>), IntV(0), BoolV(FALSE),
      StrV(<< "x" >>), StrV(<< "y", "e" >>), StrV(<< "n", "a", "n" >>),
      StrV(<< "N", "U", "L", "L" >>), StrV(<< " " >>), StrV(<< >>), FloatV(1, 0),
      StrV(<< "1", "0" >>) }

\* Rows that vary in key and name (RawRows), rows that carry a year or an
\* indicator (RichRows) and the rows put next to those (PlainRows); rows of
\* a workbook with the extra column (ExtraRows).
RawRows ==
    [ WBS_ELEMENT_CDE : RawKeys, WBS_ELEMENT_NME : RawNames,
      PROJ_FY : {NaN}, ACCT_IND : {NaN} ]
RichRows ==
    [ WBS_ELEMENT_CDE : {A}, WBS_ELEMENT_NME : {X}, PROJ_FY : RawYears, ACCT_IND : {NaN} ]
      \cup
    [ WBS_ELEMENT_CDE : {B}, WBS_ELEMENT_NME : {X}, PROJ_FY : {NaN}, ACCT_IND : RawIndicators ]
PlainRows ==
    [ WBS_ELEMENT_CDE : {A, NaN}, WBS_ELEMENT_NME : {X, NaN}, PROJ_FY : {NaN}, ACCT_IND : {NaN} ]
ExtraRows ==
    [ WBS_ELEMENT_CDE : {A, NaN}, WBS_ELEMENT_NME : {X, NaN}, PROJ_FY : {NaN},
      ACCT_IND : {NaN}, NOTES : {X, NaN} ]

\* The frames of at most n rows drawn from S.
FramesUpTo(S, n) == UNION { [1..k -> S] : k \in 0..n }

InsertAt(s, p, e) == SubSeq(s, 1, p - 1) \o << e >> \o SubSeq(s, p, Len(s))

\* The workbooks of at most n rows: frames of raw rows, frames of plain
\* rows with one rich row among them, and frames with the extra column.
RichFrames(n) ==
    UNION { { InsertAt(s, p, e) : p \in 1..(Len(s) + 1), e \in RichRows } :
              s \in FramesUpTo(PlainRows, n - 1) }
Workbooks(n) ==
    { [columns |-> SchemaColumns, rows |-> rows] :
        rows \in FramesUpTo(RawRows, n) \cup RichFrames(n) }
      \cup
    { [columns |-> SchemaColumns \cup {ExtraColumn}, rows |-> rows] :
        rows \in FramesUpTo(ExtraRows, n) }

\* expected_cols - actual_cols of load_excel_data.  (MissingColumnsMut: only
\* the key column is expected.)
MissingColumnsMut(actual_cols) == {KeyColumn} \ actual_cols
MissingColumns(actual_cols) == SchemaColumns \ actual_cols

\* No loader is running.
LoaderIdle ==
    /\ loader = "none" /\ format = "changes" /\ records = << >>
    /\ batch_size = 1 /\ store = << >> /\ run = 1 /\ pc = "idle"
    /\ batch_start = 0 /\ q = 1 /\ i = 1
    /\ successful_count = 0 /\ skipped_count = 0
    /\ total_successful = 0 /\ total_skipped = 0
    /\ successful_batches = 0 /\ failed_records = 0 /\ failures = 0
    /\ resp = NoResp
    /\ hist = FreshHist(<< >>, NoFirst)

\* The processor main constructed: WBSDataProcessor() (self.df is None).
NewProcessor(workbook) ==
    /\ excel = workbook
    /\ df = << >> /\ df_clean = << >> /\ npc = "new"
    /\ duplicates = 0 /\ returned = << >>

InitNorm ==
    /\ \E workbook \in Workbooks(MaxRows) : NewProcessor(workbook)
    /\ V2Configured
    /\ LoaderIdle
    /\ ClientIdle
    /\ ServiceIdle

\* processor.load_excel_data(), called by main: read_excel assigns self.df;
\* a workbook without a column of the schema raises ValueError, which is
\* wrapped in RuntimeError and ends main with exit status 1.
Load ==
    /\ entry = "wbs_loader_v2" /\ epc = "configured" /\ npc = "new"
    /\ df' = ReadExcel(excel.rows)
    /\ LET missing_cols == MissingColumns(excel.columns)
       IN  IF missing_cols # {}
           THEN /\ npc' = "failed"
                /\ V2MainFails([cls |-> "RuntimeError",
                                msg |-> << "Failed to load Excel file: ",
                                           "Missing columns in Excel file: " >>,
                                missing_cols |-> missing_cols])
           ELSE /\ npc' = "loaded"
                /\ UNCHANGED entryVars
    /\ trace' = Append(trace, "load")
    /\ UNCHANGED << excel, df_clean, duplicates, returned >>
    /\ UNCHANGED << db, db0, batches_done, create_outcome >>
    /\ UNCHANGED loaderVars
    /\ UNCHANGED << clientVars, listerVars >>

\* processor.clean_and_validate_data(), called by main: it returns df_clean;
\* the exception of the Int64 cast ends main with exit status 1.
Clean ==
    /\ entry = "wbs_loader_v2" /\ epc = "configured" /\ npc = "loaded"
    /\ IF Int64Raises(df)
       THEN /\ npc' = "raised"
            /\ V2MainFails([cls |-> "TypeError",
                            msg |-> << "cannot safely cast non-equivalent float64 to int64" >>])
            /\ UNCHANGED << df_clean, duplicates, returned >>
       ELSE /\ npc' = "cleaned"
            /\ df_clean' = CleanAndValidate(df)
            /\ duplicates' = Duplicated(df)
            /\ returned' = << CleanAndValidate(df) >>
            /\ UNCHANGED entryVars
    /\ trace' = Append(trace, "clean")
    /\ UNCHANGED << excel, df >>
    /\ UNCHANGED << db, db0, batches_done, create_outcome >>
    /\ UNCHANGED loaderVars
    /\ UNCHANGED << clientVars, listerVars >>

NextNorm ==
    \/ Load
    \/ Clean

SpecNorm == InitNorm /\ [][NextNorm]_vars

\* C10: the frame the normalizer returns holds no two rows with the same
\* cleaned key; keys that differ only in surrounding whitespace are one key
\* and missing keys are one key.
C10_KeysUnique ==
    npc = "cleaned" =>
        \A j, k \in 1..Len(df_clean) :
            df_clean[j].row[KeyColumn] = df_clean[k].row[KeyColumn] => j = k

\* C10 happens: three rows, two under keys that differ only in whitespace
\* and two without a key; one row per key is returned.
C10_Witness ==
    /\ npc = "cleaned" /\ Len(df) = 3
    /\ \E j, k \in 1..3 :
          /\ j < k /\ df[j][KeyColumn] # df[k][KeyColumn]
          /\ CleanCell(KeyColumn, df[j][KeyColumn]) = CleanCell(KeyColumn, df[k][KeyColumn])
          /\ ~IsNa(CleanCell(KeyColumn, df[j][KeyColumn]))
    /\ \E j \in 1..3 : IsNa(CleanCell(KeyColumn, df[j][KeyColumn]))
    /\ Len(df_clean) = 2

\* ====================================================== the scripts
\* Every script starts by D1Config.from_env(); what it does with the error
\* differs.  Of what follows a loaded configuration the model carries the
\* steps up to the first remote calls: for wbs_loader_v2.py the workbook is
\* loaded and cleaned, the table created and, on request, emptied (the
\* insert that follows is bulk_insert_data, V2Start); for app.py the test
\* query and the requests; for the others their first remote statement.
Entries == Scripts \cup {"debug_db"}

\* The configuration step of a script whose main returns 1 (or calls
\* sys.exit(1), or lets the error end the process) on a configuration error.
ConfigOrExit(status) ==
    LET r == from_env(env)
    IN  IF r.raised
        THEN /\ epc' = "exit" /\ exit_status' = status /\ error' = r.exc
        ELSE /\ epc' = "configured" /\ UNCHANGED << exit_status, error >>

\* wbs_loader.py main: except RuntimeError: print; return 1
V1MainConfig ==
    /\ entry = "wbs_loader" /\ epc = "start"
    /\ ConfigOrExit(1)
    /\ UNCHANGED << entry, env, remote_calls, served >>
    /\ UNCHANGED << loaderVars, normVars, clientVars, serviceVars >>

\* wbs_loader_v2.py main: except Exception: print; sys.exit(1).  With a
\* configuration the processor and the loader are constructed.
V2MainConfig ==
    /\ entry = "wbs_loader_v2" /\ epc = "start"
    /\ ConfigOrExit(1)
    /\ npc' = IF from_env(env).raised THEN npc ELSE "new"
    /\ UNCHANGED << entry, env, remote_calls, served >>
    /\ UNCHANGED << excel, df, df_clean, duplicates, returned >>
    /\ UNCHANGED << loaderVars, clientVars, serviceVars >>

\* list_wbs.py main: except RuntimeError: print; return 1
ListerMainConfig ==
    /\ entry = "list_wbs" /\ epc = "start"
    /\ ConfigOrExit(1)
    /\ UNCHANGED << entry, env, remote_calls, served >>
    /\ UNCHANGED << loaderVars, normVars, clientVars, serviceVars >>

\* main.py main: except RuntimeError: print; return 1
TableMainConfig ==
    /\ entry = "main" /\ epc = "start"
    /\ ConfigOrExit(1)
    /\ UNCHANGED << entry, env, remote_calls, served >>
    /\ UNCHANGED << loaderVars, normVars, clientVars, serviceVars >>

\* debug_db.py: the call is at module level and nothing catches the error;
\* the interpreter prints the traceback and exits with status 1.
DebugConfig ==
    /\ entry = "debug_db" /\ epc = "start"
    /\ ConfigOrExit(1)
    /\ UNCHANGED << entry, env, remote_calls, served >>
    /\ UNCHANGED << loaderVars, normVars, clientVars, serviceVars >>

\* check_wbs2.py main: except Exception: print.  main returns None and the
\* script ends: the exit status is 0.
CheckMainConfig ==
    /\ entry = "check_wbs2" /\ epc = "start"
    /\ ConfigOrExit(0)
    /\ UNCHANGED << entry, env, remote_calls, served >>
    /\ UNCHANGED << loaderVars, normVars, clientVars, serviceVars >>

\* app.py, module level: the configuration, the client, the lister and the
\* test query count_wbs_items() in one try; except Exception sets
\* wbs_lister = None.  Either way the module goes on to app.run(): epc is
\* "serving" (wbs_lister set) or "serving_nodb" (wbs_lister is None).
AppInit ==
    /\ entry = "app" /\ epc = "start"
    /\ LET r == from_env(env)
       IN  IF r.raised
           THEN /\ epc' = "serving_nodb" /\ error' = r.exc
                /\ UNCHANGED remote_calls
           ELSE \E ex \in Exchanges :
                  LET t == Query("app", ex)
                  IN  /\ remote_calls' = remote_calls + 1
                      /\ IF t.raised /\ CatchesException(t.exc)
                         THEN epc' = "serving_nodb" /\ error' = t.exc
                         ELSE epc' = "serving" /\ UNCHANGED error
    /\ UNCHANGED << entry, env, exit_status, served >>
    /\ UNCHANGED << loaderVars, normVars, clientVars, serviceVars >>

\* app.py, a request to a route: without a lister the error page (or the
\* 503 answer) is returned and no query is made; with one the route queries.
AppRequest ==
    /\ entry = "app" /\ epc \in {"serving", "serving_nodb"}
    /\ served < MaxRequests
    /\ served' = served + 1
    /\ remote_calls' = IF epc = "serving" THEN remote_calls + 1 ELSE remote_calls
    /\ UNCHANGED << entry, env, epc, exit_status, error >>
    /\ UNCHANGED << loaderVars, normVars, clientVars, serviceVars >>

\* The first remote statement of the scripts that go straight to the
\* database after the configuration: SELECT 1, list_tables,
\* SELECT COUNT(*), SELECT * ... LIMIT 2.
ScriptFirstCall ==
    /\ entry \in {"list_wbs", "main", "check_wbs2", "debug_db"}
    /\ epc = "configured"
    /\ remote_calls' = remote_calls + 1
    /\ epc' = "running"
    /\ UNCHANGED << entry, env, exit_status, error, served >>
    /\ UNCHANGED << loaderVars, normVars, clientVars, serviceVars >>

\* ------------------------------------------------ the table setup
\* The exchanges of a statement of the table setup: it succeeds, or fails
\* in one of the ways of StatementFailures, or fails with the text of
\* SQLite for a table that is there.
TableExists == [kind |-> "json", data |-> [success |-> FALSE, errors |-> "[table already exists]"]]
SetupOk == [kind |-> "json", data |-> Envelope("changes", 0)]
SetupFailures == StatementFailures \cup {TableExists}

\* A step of main that ends it: print, return 1 / sys.exit(1).
MainFails(exc) ==
    /\ epc' = "exit" /\ exit_status' = 1 /\ error' = exc

\* wbs_loader.py main: the workbook is there and is read, or main returns 1.
V1ReadWorkbook ==
    /\ entry = "wbs_loader" /\ epc = "configured"
    /\ \E read \in BOOLEAN :
          IF read
          THEN /\ epc' = "loaded" /\ UNCHANGED << exit_status, error >>
          ELSE MainFails([cls |-> "Exception", msg |-> << "Failed to load Excel data" >>])
    /\ trace' = Append(trace, "load")
    /\ UNCHANGED << entry, env, remote_calls, served >>
    /\ UNCHANGED << db, db0, batches_done, create_outcome >>
    /\ UNCHANGED << loaderVars, normVars, clientVars, listerVars >>

\* The `result` of the answer to PRAGMA table_info('wbs'), as main reads it:
\* a sequence of rows, each a dict (of `len` keys, none of them the integer
\* 1) or a list whose second item is a column name.
\*   "sets"     one result set {results, success, meta}, the shape
\*              count_records and _process_batch read
\*   "results"  one result set with the key results only
\*   "rows"     one list (cid, name, ...) per column of the table
\*   "empty"    no result, or an empty one
TableInfoShapes == {"sets", "results", "rows", "empty"}
ColumnNames(table) ==
    IF ~table.exists THEN << >>
    ELSE IF table.dated THEN << "WBS_ELEMENT_CDE", "WBS_ELEMENT_DESC", "CREATE_DATE" >>
    ELSE << "WBS_ELEMENT_CDE", "WBS_ELEMENT_DESC" >>
TableInfoResult(shape, table) ==
    CASE shape = "sets" -> << [dict |-> TRUE, len |-> 3, second |-> ""] >>
      [] shape = "results" -> << [dict |-> TRUE, len |-> 1, second |-> ""] >>
      [] shape = "rows" ->
            [k \in 1..Len(ColumnNames(table)) |->
                [dict |-> FALSE, len |-> 6, second |-> ColumnNames(table)[k]]]
      [] shape = "empty" -> << >>

\* columns = [row[1] for row in result if len(row) > 1] if result else []
\* row[1] of a dict raises KeyError.
TableInfoColumns(result) ==
    LET long == SelectSeq(result, LAMBDA row : row.len > 1)
    IN  IF \E k \in 1..Len(long) : long[k].dict
        THEN Raise("KeyError", << "1" >>)
        ELSE Return([k \in 1..Len(long) |-> long[k].second])

\* wbs_loader.py main: get_table_info() and the test for CREATE_DATE.  An
\* exception of the query or of the reading of its answer goes to
\* create_comprehensive_wbs_table(); no CREATE_DATE among the columns goes
\* to recreate_wbs_table_with_CREATE_DATE().
NeedsRecreate(columns) == "CREATE_DATE" \notin Range(columns)
V1TableInfo ==
    /\ entry = "wbs_loader" /\ epc = "loaded"
    /\ remote_calls' = remote_calls + 1
    /\ \/ \E ex \in StatementFailures :
            /\ Query("wbs_loader", ex).raised
            /\ epc' = "create"
       \/ \E shape \in TableInfoShapes :
            LET columns == TableInfoColumns(TableInfoResult(shape, db))
            IN  epc' = IF columns.raised THEN "create"
                       ELSE IF NeedsRecreate(columns.value) THEN "recreate"
                       ELSE "table_ready"
    /\ trace' = Append(trace, "table_info")
    /\ UNCHANGED << entry, env, exit_status, error, served >>
    /\ UNCHANGED << db, db0, batches_done, create_outcome >>
    /\ UNCHANGED << loaderVars, normVars, clientVars, listerVars >>

\* recreate_wbs_table_with_CREATE_DATE, first statement:
\* DROP TABLE IF EXISTS "wbs".  Its exception is caught by main
\* (except Exception as check_error), which goes on to
\* create_comprehensive_wbs_table().
V1DropTable ==
    /\ entry = "wbs_loader" /\ epc = "recreate"
    /\ remote_calls' = remote_calls + 1
    /\ \E ex \in SetupFailures \cup {SetupOk} :
          IF Query("wbs_loader", ex).raised
          THEN epc' = "create" /\ db' = db
          ELSE epc' = "recreate_create" /\ db' = NoTable
    /\ trace' = Append(trace, "drop")
    /\ UNCHANGED << entry, env, exit_status, error, served >>
    /\ UNCHANGED << db0, batches_done, create_outcome >>
    /\ UNCHANGED << loaderVars, normVars, clientVars, listerVars >>

\* What a CREATE TABLE statement came to, from what query did.
TextHolds(exc, text) == \E k \in 1..Len(exc.msg) : exc.msg[k] = text
CreateOutcome(r) ==
    IF ~r.raised THEN "ok"
    ELSE IF TextHolds(r.exc, "[table already exists]") THEN "exists"
    ELSE "failed"

\* recreate_wbs_table_with_CREATE_DATE, second statement: CREATE TABLE "wbs"
\* (it succeeds only when no such table is there).
NewTable == [exists |-> TRUE, dated |-> TRUE, rows |-> << >>]
V1RecreateTable ==
    /\ entry = "wbs_loader" /\ epc = "recreate_create"
    /\ remote_calls' = remote_calls + 1
    /\ \E ex \in SetupFailures \cup (IF db.exists THEN {} ELSE {SetupOk}) :
          LET r == Query("wbs_loader", ex)
          IN  /\ IF r.raised
                 THEN epc' = "create" /\ db' = db
                 ELSE epc' = "table_ready" /\ db' = NewTable
              /\ create_outcome' = CreateOutcome(r)
    /\ trace' = Append(trace, "create")
    /\ UNCHANGED << entry, env, exit_status, error, served >>
    /\ UNCHANGED << db0, batches_done >>
    /\ UNCHANGED << loaderVars, normVars, clientVars, listerVars >>

\* CREATE TABLE IF NOT EXISTS on the database.
CreateIfNotExists(table) == IF table.exists THEN table ELSE NewTable

\* create_comprehensive_wbs_table(): CREATE TABLE IF NOT EXISTS "wbs".  Its
\* exception, whatever its text, reaches except Exception of the table
\* setup: main prints "Database setup failed" and returns 1.
V1CreateTable ==
    /\ entry = "wbs_loader" /\ epc = "create"
    /\ remote_calls' = remote_calls + 1
    /\ \E ex \in SetupFailures \cup {SetupOk} :
          LET r == Query("wbs_loader", ex)
          IN  /\ IF r.raised
                 THEN /\ MainFails([cls |-> r.exc.cls,
                                    msg |-> << "Database setup failed: " >> \o r.exc.msg])
                      /\ db' = db
                 ELSE /\ epc' = "table_ready" /\ db' = CreateIfNotExists(db)
                      /\ UNCHANGED << exit_status, error >>
              /\ create_outcome' = CreateOutcome(r)
    /\ trace' = Append(trace, "create")
    /\ UNCHANGED << entry, env, served >>
    /\ UNCHANGED << db0, batches_done >>
    /\ UNCHANGED << loaderVars, normVars, clientVars, listerVars >>

\* wbs_loader.py main: the second get_table_info(); its exceptions are
\* printed as a warning and the insert goes ahead.
V1ShowTableInfo ==
    /\ entry = "wbs_loader" /\ epc = "table_ready"
    /\ remote_calls' = remote_calls + 1
    /\ epc' = "ready"
    /\ trace' = Append(trace, "table_info")
    /\ UNCHANGED << entry, env, exit_status, error, served >>
    /\ UNCHANGED << db, db0, batches_done, create_outcome >>
    /\ UNCHANGED << loaderVars, normVars, clientVars, listerVars >>

\* wbs_loader.py main: batch_insert_wbs_records(records) is called.
V1Insert ==
    /\ entry = "wbs_loader" /\ epc = "ready"
    /\ epc' = "inserting"
    /\ trace' = Append(trace, "insert")
    /\ UNCHANGED << entry, env, exit_status, error, remote_calls, served >>
    /\ UNCHANGED << db, db0, batches_done, create_outcome >>
    /\ UNCHANGED << loaderVars, normVars, clientVars, listerVars >>

\* wbs_loader_v2.py main, step 4: loader.create_table() sends
\* CREATE TABLE IF NOT EXISTS wbs_2.  An error whose text holds
\* "already exists" is passed over; any other is raised again as
\* RuntimeError and ends main.
AlreadyExists(exc) == \E k \in 1..Len(exc.msg) : exc.msg[k] = "[table already exists]"
V2CreateTable ==
    /\ entry = "wbs_loader_v2" /\ epc = "configured" /\ npc = "cleaned"
    /\ remote_calls' = remote_calls + 1
    /\ \E ex \in SetupFailures \cup {SetupOk} :
          LET r == Query("wbs_loader_v2", ex)
          IN  /\ IF r.raised /\ ~AlreadyExists(r.exc)
                 THEN /\ MainFails([cls |-> "RuntimeError",
                                    msg |-> << "Failed to create table: " >> \o r.exc.msg])
                      /\ db' = db
                 ELSE /\ epc' = "created" /\ UNCHANGED << exit_status, error >>
                      /\ db' = IF r.raised THEN db ELSE CreateIfNotExists(db)
              /\ create_outcome' = CreateOutcome(r)
    /\ trace' = Append(trace, "create")
    /\ UNCHANGED << entry, env, served >>
    /\ UNCHANGED << db0, batches_done >>
    /\ UNCHANGED << loaderVars, normVars, clientVars, listerVars >>

\* wbs_loader_v2.py main, step 5: the operator's answer to the prompt,
\* stripped and in lower case; on "y" clear_existing_data() sends DELETE
\* FROM wbs_2 and passes over an error (the statement fails when no table is
\* there).  The trace takes the prompt, the answer, and the delete with its
\* failure.
Responses == {"y", "n", "", "yes"}
\* (ClearAnswersMut: every answer that begins with y clears the table.)
ClearAnswersMut == {"y", "yes"}
ClearAnswers == {"y"}
V2ClearExisting ==
    /\ entry = "wbs_loader_v2" /\ epc = "created"
    /\ \E response \in Responses :
          IF response \in ClearAnswers
          THEN /\ remote_calls' = remote_calls + 1
               /\ \E ex \in StatementFailures \cup (IF db.exists THEN {SetupOk} ELSE {}) :
                     /\ db' = IF Query("wbs_loader_v2", ex).raised
                              THEN db ELSE [db EXCEPT !.rows = << >>]
                     /\ trace' = trace \o << "prompt", response, "delete" >>
                                  \o (IF Query("wbs_loader_v2", ex).raised
                                      THEN << "delete failed" >> ELSE << >>)
          ELSE /\ trace' = trace \o << "prompt", response >>
               /\ UNCHANGED << remote_calls, db >>
    /\ epc' = "cleared"
    /\ UNCHANGED << entry, env, exit_status, error, served >>
    /\ UNCHANGED << db0, batches_done, create_outcome >>
    /\ UNCHANGED << loaderVars, normVars, clientVars, listerVars >>

\* batch_size=25 of the loader main constructs.
MainBatchSize == 25

\* The batches of bulk_insert_data(df_clean): range(0, total_records, 25).
MainBatches == (Len(df_clean) + MainBatchSize - 1) \div MainBatchSize

\* The keys of a batch the table does not hold yet, in order.
RECURSIVE NewKeys(_, _)
NewKeys(rows, keys) ==
    IF keys = << >> THEN << >>
    ELSE IF Head(keys) \in Range(rows)
    THEN NewKeys(rows, Tail(keys))
    ELSE << Head(keys) >> \o NewKeys(Append(rows, Head(keys)), Tail(keys))

\* wbs_loader_v2.py main, step 6: one iteration of the batch loop of
\* bulk_insert_data with its fallback.  Its statements reach the table (the
\* rows with a new key are added) or all of them fail; no exception leaves
\* the iteration.
V2InsertBatch ==
    /\ entry = "wbs_loader_v2" /\ epc = "cleared"
    /\ batches_done < MainBatches
    /\ batches_done' = batches_done + 1
    /\ remote_calls' = remote_calls + 1
    /\ LET first == batches_done * MainBatchSize + 1
           last == IF first + MainBatchSize - 1 < Len(df_clean)
                   THEN first + MainBatchSize - 1 ELSE Len(df_clean)
           keys == [k \in 1..(last - first + 1) |-> df_clean[first + k - 1].row.WBS_ELEMENT_CDE]
       IN  \E reached \in (IF db.exists THEN BOOLEAN ELSE {FALSE}) :
              db' = IF reached
                    THEN [db EXCEPT !.rows = @ \o NewKeys(@, keys)]
                    ELSE db
    /\ trace' = Append(trace, "insert")
    /\ UNCHANGED << entry, env, epc, exit_status, error, served >>
    /\ UNCHANGED << db0, create_outcome >>
    /\ UNCHANGED << loaderVars, normVars, clientVars, listerVars >>

\* bulk_insert_data after its loop: the final statistics divide by
\* total_records, which raises for an empty frame and ends main.
V2InsertEnds ==
    /\ entry = "wbs_loader_v2" /\ epc = "cleared"
    /\ batches_done = MainBatches
    /\ IF Len(df_clean) = 0
       THEN MainFails([cls |-> "ZeroDivisionError", msg |-> << "division by zero" >>])
       ELSE epc' = "inserted" /\ UNCHANGED << exit_status, error >>
    /\ UNCHANGED << entry, env, remote_calls, served >>
    /\ UNCHANGED setupVars
    /\ UNCHANGED << loaderVars, normVars, clientVars, listerVars >>

\* wbs_loader_v2.py main, step 7: verify_data_load() sends its three SELECT
\* statements; an exception of one is raised again as RuntimeError and ends
\* main with status 1, otherwise main ends with status 0.
V2Verify ==
    /\ entry = "wbs_loader_v2" /\ epc = "inserted"
    /\ remote_calls' = remote_calls + 1
    /\ \E ex \in StatementFailures \cup {SetupOk} :
          LET r == Query("wbs_loader_v2", ex)
          IN  IF r.raised
              THEN MainFails([cls |-> "RuntimeError",
                              msg |-> << "Verification failed: " >> \o r.exc.msg])
              ELSE epc' = "exit" /\ exit_status' = 0 /\ UNCHANGED error
    /\ trace' = Append(trace, "verify")
    /\ UNCHANGED << entry, env, served >>
    /\ UNCHANGED << db, db0, batches_done, create_outcome >>
    /\ UNCHANGED << loaderVars, normVars, clientVars, listerVars >>

\* The workbooks of the runs of wbs_loader_v2.py from its start: with and
\* without columns of the schema, with and without the extra column, empty
\* or with one row.
EntryColumns ==
    { SchemaColumns, SchemaColumns \cup {ExtraColumn}, SchemaColumns \ {KeyColumn},
      SchemaColumns \ {"PROJ_FY", "ACCT_IND"},
      (SchemaColumns \ {"WBS_ELEMENT_NME"}) \cup {ExtraColumn}, {ExtraColumn} }
SampleRow(columns, year) ==
    [ col \in columns |->
        CASE col = "WBS_ELEMENT_CDE" -> A
          [] col = "PROJ_FY" -> year
          [] col = "ACCT_IND" -> StrV(<< "Y" >>)
          [] OTHER -> X ]
\* A workbook of one row more than a batch of main holds: its keys are
\* "A", "AA", "AAA", ...
LongSheet ==
    [ columns |-> SchemaColumns,
      rows |-> [ k \in 1..(MainBatchSize + 1) |->
                   [ SampleRow(SchemaColumns, IntV(2024)) EXCEPT
                       !.WBS_ELEMENT_CDE = StrV([j \in 1..k |-> "A"]) ] ] ]
EntryWorkbooks ==
    { [columns |-> columns, rows |-> << >>] : columns \in EntryColumns }
      \cup
    { [columns |-> columns, rows |-> << SampleRow(columns, year) >>] :
        columns \in EntryColumns, year \in {IntV(2024), FloatV(2024, 5)} }
      \cup
    { LongSheet }

\* The table a loader finds: none, an empty one, one with a row, and for
\* wbs_loader.py also the table main.py creates (without CREATE_DATE).
Databases ==
    { NoTable, NewTable, [NewTable EXCEPT !.rows = << A >>],
      [NewTable EXCEPT !.rows = << A >>, !.dated = FALSE] }

InitEntry ==
    /\ entry \in Entries
    /\ env \in Environments
    /\ epc = "start"
    /\ exit_status = 0 /\ error = NoError /\ remote_calls = 0 /\ served = 0
    /\ IF entry = "wbs_loader_v2"
       THEN excel \in EntryWorkbooks
       ELSE excel = NoSheet
    /\ df = << >> /\ df_clean = << >> /\ npc = "idle"
    /\ duplicates = 0 /\ returned = << >>
    /\ IF entry \in {"wbs_loader", "wbs_loader_v2"}
       THEN db \in { table \in Databases : entry = "wbs_loader" \/ table.dated \/ ~table.exists }
       ELSE db = NoTable
    /\ db0 = db /\ trace = << >> /\ batches_done = 0 /\ create_outcome = "none"
    /\ ListerIdle
    /\ LoaderIdle
    /\ ClientIdle

NextEntry ==
    \/ V1MainConfig
    \/ V2MainConfig
    \/ ListerMainConfig
    \/ TableMainConfig
    \/ DebugConfig
    \/ CheckMainConfig
    \/ AppInit
    \/ AppRequest
    \/ ScriptFirstCall
    \/ Load
    \/ Clean
    \/ V1ReadWorkbook
    \/ V1TableInfo
    \/ V1DropTable
    \/ V1RecreateTable
    \/ V1CreateTable
    \/ V1ShowTableInfo
    \/ V1Insert
    \/ V2CreateTable
    \/ V2ClearExisting
    \/ V2InsertBatch
    \/ V2InsertEnds
    \/ V2Verify

SpecEntry == InitEntry /\ [][NextEntry]_vars

\* ======================================================== the client
\* One D1Client of one script and the calls made on it.
InitClient ==
    /\ client \in Scripts
    /\ calls = 0 /\ http_requests = 0 /\ outcome = NoOutcome
    /\ LoaderIdle
    /\ NormIdle
    /\ EntryIdle
    /\ ServiceIdle

\* A client that sends its request again after a transport failure.
ClientQueryMut ==
    /\ client # "none" /\ calls < MaxCalls
    /\ calls' = calls + 1
    /\ \E ex \in Exchanges, again \in Exchanges :
          IF ex.kind = "transport"
          THEN /\ http_requests' = http_requests + 2
               /\ outcome' = [exchange |-> again, result |-> Query(client, again)]
          ELSE /\ http_requests' = http_requests + 1
               /\ outcome' = [exchange |-> ex, result |-> Query(client, ex)]
    /\ UNCHANGED client
    /\ UNCHANGED << loaderVars, normVars, entryVars, serviceVars >>

\* d1.query(sql, params): one urlopen, then the result or the exception.
ClientQuery ==
    /\ client # "none" /\ calls < MaxCalls
    /\ calls' = calls + 1
    /\ http_requests' = http_requests + 1
    /\ \E ex \in Exchanges :
          outcome' = [exchange |-> ex, result |-> Query(client, ex)]
    /\ UNCHANGED client
    /\ UNCHANGED << loaderVars, normVars, entryVars, serviceVars >>

NextClient == ClientQuery

SpecClient == InitClient /\ [][NextClient]_vars

\* An exchange that succeeded: a response below status 400 whose body is an
\* envelope with the success flag set.
Succeeded(ex) ==
    /\ ex.kind = "json"
    /\ "success" \in DOMAIN ex.data
    /\ ex.data.success

\* C18: the client has sent exactly one request per call of query, and the
\* last call raised exactly when its exchange did not succeed and otherwise
\* returned the envelope of the response as it was.
C18_OneRequestPerCall ==
    /\ http_requests = calls
    /\ calls > 0 =>
          /\ outcome.result.raised <=> ~Succeeded(outcome.exchange)
          /\ ~outcome.result.raised => outcome.result.value = outcome.exchange.data

\* C18 happens: three calls, the last of which failed in transport, and
\* three requests.
C18_Witness ==
    /\ calls = 3 /\ http_requests = 3
    /\ outcome.exchange.kind = "transport"
    /\ outcome.result.raised

\* The failure kind an exchange is, and what a caller can tell an exception
\* by: its class and the fixed text its message starts with.
FailureKind(ex) ==
    CASE ex.kind = "transport" -> "TransportFailure"
      [] ex.kind = "http" -> "RemoteFailure"
      [] ex.kind = "json" -> "QueryFailure"
      [] OTHER -> "none"
Signature(exc) == << exc.cls, exc.msg[1] >>
Carries(exc, text) == \E k \in 1..Len(exc.msg) : exc.msg[k] = text

\* C19 (as claimed): a transport failure, an HTTP status and an envelope
\* without success end in three kinds of exception a caller can tell apart;
\* the one for an HTTP status carries the status code and the body, the one
\* for a failed envelope carries the error list.
C19_ThreeFailureKinds ==
    (calls > 0 /\ outcome.result.raised /\ FailureKind(outcome.exchange) # "none") =>
        /\ \A ex \in TransportExchanges \cup HttpExchanges \cup JsonFailures :
              FailureKind(ex) # FailureKind(outcome.exchange) =>
                  Signature(Query(client, ex).exc) # Signature(outcome.result.exc)
        /\ outcome.exchange.kind = "http" =>
              /\ Carries(outcome.result.exc, outcome.exchange.code)
              /\ Carries(outcome.result.exc, outcome.exchange.raw)
        /\ (outcome.exchange.kind = "json" /\ "errors" \in DOMAIN outcome.exchange.data) =>
              Carries(outcome.result.exc, outcome.exchange.data.errors)

\* The part of C19 the code has: the clients that catch only HTTPError (all
\* but the one of wbs_loader_v2.py) keep the three kinds apart.
C19_ThreeFailureKindsPlain ==
    (client # "wbs_loader_v2" /\ calls > 0 /\ outcome.result.raised
       /\ FailureKind(outcome.exchange) # "none") =>
        /\ \A ex \in TransportExchanges \cup HttpExchanges \cup JsonFailures :
              FailureKind(ex) # FailureKind(outcome.exchange) =>
                  Signature(Query(client, ex).exc) # Signature(outcome.result.exc)
        /\ outcome.exchange.kind = "http" =>
              /\ Carries(outcome.result.exc, outcome.exchange.code)
              /\ Carries(outcome.result.exc, outcome.exchange.raw)
        /\ (outcome.exchange.kind = "json" /\ "errors" \in DOMAIN outcome.exchange.data) =>
              Carries(outcome.result.exc, outcome.exchange.data.errors)

\* The cleaned rows by the position they had in the frame.
FirstWithKey(pos) ==
    \A k \in 1..(pos - 1) :
        CleanCell(KeyColumn, df[k][KeyColumn]) # CleanCell(KeyColumn, df[pos][KeyColumn])

\* C11 (as claimed): deduplication keeps, for each key, the first row of the
\* source that carries it, and clean_and_validate_data hands its caller the
\* number of rows removed as duplicates next to the cleaned frame.
C11_KeepsFirstReturnsCount ==
    npc = "cleaned" =>
        /\ \A j \in 1..Len(df_clean) :
              /\ FirstWithKey(df_clean[j].pos)
              /\ df_clean[j].row = CleanRow(df[df_clean[j].pos])
        /\ Len(returned) = 2
        /\ returned[1] = df_clean
        /\ returned[2] = Cardinality({ pos \in 1..Len(df) : ~FirstWithKey(pos) })

\* The part of C11 the code has: the first row of every key is the one kept
\* and the only value returned is the cleaned frame; the number of removed
\* duplicates is the local duplicates, which is printed.
C11_KeepsFirst ==
    npc = "cleaned" =>
        /\ \A j \in 1..Len(df_clean) :
              /\ FirstWithKey(df_clean[j].pos)
              /\ df_clean[j].row = CleanRow(df[df_clean[j].pos])
        /\ returned = << df_clean >>
        /\ duplicates = Cardinality({ pos \in 1..Len(df) : ~FirstWithKey(pos) })

\* The words of the indicator claim and the raw cells that match them:
\* the cell's text, without surrounding blanks, is one of the words in some
\* mix of upper and lower case.
YesWords == { << "Y" >>, << "Y", "E", "S" >>, << "T", "R", "U", "E" >>, << "1" >> }
NoWords == { << "N" >>, << "N", "O" >>, << "F", "A", "L", "S", "E" >>, << "0" >> }
Matches(cell, words) ==
    /\ cell.t \in {"str", "int", "bool"}
    /\ \E word \in words :
          LET text == Strip(PyStr(cell).s)
          IN  /\ Len(text) = Len(word)
              /\ \A k \in 1..Len(word) : UpperChar(text[k]) = word[k]

EmptyInSchema(row) == \A col \in SchemaColumns : IsNa(row[col])

\* C13 (as claimed): no row of the cleaned frame has every column of the
\* schema null, whatever other columns the workbook carries.
C13_NoEmptyRows ==
    npc = "cleaned" => \A j \in 1..Len(df_clean) : ~EmptyInSchema(df_clean[j].row)

\* The part of C13 the code has: in a workbook with no column outside the
\* schema no such row comes out.
C13_NoEmptyRowsNoExtra ==
    (npc = "cleaned" /\ excel.columns = SchemaColumns) =>
        \A j \in 1..Len(df_clean) : ~EmptyInSchema(df_clean[j].row)

\* C14 (as claimed): cleaning never raises on a PROJ_FY cell, and every
\* PROJ_FY of the cleaned frame is an integer or null.
C14_YearNeverRaises ==
    /\ npc # "raised"
    /\ npc = "cleaned" =>
          \A j \in 1..Len(df_clean) : df_clean[j].row["PROJ_FY"].t \in {"int", "None"}

\* The part of C14 the code has: when no PROJ_FY cell is a number or a text
\* with a fraction, cleaning does not raise and gives integers and nulls.
C14_YearWithoutFraction ==
    (npc \in {"cleaned", "raised"} /\
     \A j \in 1..Len(df) : ~Fractional(ToNumeric(df[j]["PROJ_FY"]))) =>
        /\ npc = "cleaned"
        /\ \A j \in 1..Len(df_clean) : df_clean[j].row["PROJ_FY"].t \in {"int", "None"}

\* C15: in wbs_loader_v2.py nothing is sent to the database before the
\* workbook is loaded; a workbook that lacks a column of the schema ends the
\* run at the load, with a non-zero exit status, an error naming exactly the
\* missing columns and no remote call; a workbook that has every column of
\* the schema never fails the load, whatever else it carries.
C15_MissingColumnsFailFirst ==
    entry = "wbs_loader_v2" =>
        /\ npc \in {"idle", "new"} => remote_calls = 0
        /\ (npc \notin {"idle", "new"} /\ ~(SchemaColumns \subseteq excel.columns)) =>
              /\ npc = "failed" /\ epc = "exit" /\ exit_status # 0
              /\ remote_calls = 0
              /\ error.missing_cols = SchemaColumns \ excel.columns
        /\ (npc \notin {"idle", "new"} /\ SchemaColumns \subseteq excel.columns) =>
              npc # "failed"

\* C15 happens: a workbook without PROJ_FY and ACCT_IND ended the run at the
\* load with an error naming the two.
C15_Witness ==
    /\ entry = "wbs_loader_v2" /\ npc = "failed" /\ epc = "exit"
    /\ excel.columns = SchemaColumns \ {"PROJ_FY", "ACCT_IND"}
    /\ error.missing_cols = {"PROJ_FY", "ACCT_IND"}

\* The settings the environment does not provide: unset or empty.
AbsentSettings == { name \in Settings : env[name] \in {None, Empty} }
ConfigError == error.msg # << >> /\ error.msg[1] = "Missing environment variables: "

\* C16: once a script is past its configuration step, the configuration
\* was loaded exactly when no setting is absent; otherwise the error names
\* each absent setting once and nothing else.
C16_ConfigNamesMissing ==
    (entry # "none" /\ epc # "start") =>
        IF AbsentSettings = {}
        THEN ~ConfigError
        ELSE /\ ConfigError
             /\ error.cls = "RuntimeError"
             /\ Range(Tail(error.msg)) = AbsentSettings
             /\ Len(Tail(error.msg)) = Cardinality(AbsentSettings)

\* C16 happens: two settings are absent (one unset, one empty) and the
\* error names the two.
C16_Witness ==
    /\ entry = "wbs_loader" /\ epc = "exit"
    /\ env["CF_ACCOUNT_ID"] = None /\ env["CF_API_TOKEN"] = Empty
    /\ env["CF_D1_DATABASE_ID"] = Secret
    /\ Tail(error.msg) = << "CF_ACCOUNT_ID", "CF_API_TOKEN" >>

\* C17 (as claimed): in every script an absent setting ends the process with
\* a non-zero exit status, with no remote call made and no request served.
C17_MissingSettingIsFatal ==
    (entry # "none" /\ epc # "start" /\ AbsentSettings # {}) =>
        /\ epc = "exit" /\ exit_status # 0
        /\ remote_calls = 0 /\ served = 0

\* The part of C17 the code has: the two loaders, the lister, the table
\* script and debug_db.py end with status 1 and no remote call.
C17_MissingSettingIsFatalOthers ==
    (entry \notin {"none", "check_wbs2", "app"} /\ epc # "start" /\ AbsentSettings # {}) =>
        /\ epc = "exit" /\ exit_status # 0
        /\ remote_calls = 0 /\ served = 0

\* ======================================================== the listers
\* self._cache_timeout of app.py's WBSLister.
cache_timeout == 300

\* The seconds that pass between two calls.
TickSteps == {299, 300}

\* The envelope of a SELECT that succeeded: one result set with the rows
\* ("sets"), or an envelope with no result sets ("bare") or without the key
\* result ("nokey").
SelectShapes == {"sets", "bare", "nokey"}
SelectEnvelope(shape, rows) ==
    CASE shape = "sets" ->
            [success |-> TRUE, result |-> << [results |-> rows, success |-> TRUE] >>]
      [] shape = "bare" -> [success |-> TRUE, result |-> << >>]
      [] shape = "nokey" -> [success |-> TRUE]

\* _extract_results: the rows of the first result set, [] without one.
ExtractResults(d1_response) ==
    LET result_data == Get(d1_response, "result", << >>)
    IN  IF result_data = << >> THEN << >>
        ELSE Get(result_data[1], "results", << >>)

\* SELECT * FROM wbs_2 WHERE WBS_ELEMENT_CDE IS NOT NULL ORDER BY
\* WBS_ELEMENT_CDE [LIMIT 1 OFFSET 0], and SELECT COUNT(*) as total.
Limits == {"None", "1"}
ItemsKey(limit) == IF limit = "None" THEN "wbs_items_None_0" ELSE "wbs_items_1_0"
SelectItems(table, limit) ==
    IF limit = "None" \/ table.rows = << >> THEN table.rows ELSE << Head(table.rows) >>
SelectCount(table) == << [total |-> Len(table.rows)] >>

\* _is_cache_valid and _get_from_cache.  (IsCacheValidMut: an entry is valid
\* up to and including the timeout.)
IsCacheValidMut(cache_key) ==
    /\ cache[cache_key].present
    /\ now - cache[cache_key].timestamp <= cache_timeout
IsCacheValid(cache_key) ==
    /\ cache[cache_key].present
    /\ now - cache[cache_key].timestamp < cache_timeout
\* _set_cache
SetCache(cache_key, data) ==
    [cache EXCEPT ![cache_key] = [present |-> TRUE, data |-> data, timestamp |-> now]]

\* The exchanges of a SELECT on the table: it fails when the table is not
\* there ("no such table") or in one of the ways of StatementFailures, and
\* otherwise answers in one of the shapes.
NoSuchTable == [kind |-> "json", data |-> [success |-> FALSE, errors |-> "[no such table]"]]
SelectExchanges(table, rows) ==
    StatementFailures \cup {NoSuchTable} \cup
    (IF table.exists
     THEN { [kind |-> "json", data |-> SelectEnvelope(shape, rows)] : shape \in SelectShapes }
     ELSE {})

\* What a method makes of the extracted rows: count_wbs_items takes
\* extracted_results[0].get("total", 0), or 0 without a row;
\* get_all_wbs_items takes the rows.
CountOf(extracted_results) ==
    IF extracted_results = << >> THEN IntV(0)
    ELSE IntV(Get(extracted_results[1], "total", 0))
ValueOf(op, extracted_results) ==
    IF op = "count_wbs_items" THEN CountOf(extracted_results) ELSE ListV(extracted_results)

\* A method of app.py's lister that reads through the cache: a valid entry
\* is returned (it is never None); otherwise the query is sent, and its
\* value is stored and returned, or its exception leaves the method.
CachedRead(op, cache_key, rows) ==
    /\ lister = "app" /\ ops < MaxOps
    /\ ops' = ops + 1
    /\ IF IsCacheValid(cache_key)
       THEN /\ last_call' = [op |-> op, key |-> cache_key, hit |-> TRUE, raised |-> FALSE,
                        value |-> cache[cache_key].data]
            /\ UNCHANGED << cache, lister_queries >>
       ELSE /\ lister_queries' = lister_queries + 1
            /\ \E ex \in SelectExchanges(db, rows) :
                  LET r == Query("app", ex)
                  IN  IF r.raised
                      THEN /\ last_call' = [op |-> op, key |-> cache_key, hit |-> FALSE,
                                       raised |-> TRUE, value |-> ListV(<< >>)]
                           /\ UNCHANGED cache
                      ELSE /\ cache' = SetCache(cache_key, ValueOf(op, ExtractResults(r.value)))
                           /\ last_call' = [op |-> op, key |-> cache_key, hit |-> FALSE,
                                       raised |-> FALSE,
                                       value |-> ValueOf(op, ExtractResults(r.value))]
    /\ UNCHANGED << lister, now >>
    /\ UNCHANGED setupVars
    /\ UNCHANGED << loaderVars, normVars, entryVars, clientVars >>

\* get_all_wbs_items(limit, 0) of app.py
AppGetAllWbsItems ==
    \E limit \in Limits :
        CachedRead("get_all_wbs_items", ItemsKey(limit), SelectItems(db, limit))

\* count_wbs_items() of app.py
AppCountWbsItems ==
    CachedRead("count_wbs_items", "wbs_count", SelectCount(db))

\* Time passes.
Tick ==
    /\ lister = "app"
    /\ \E step \in TickSteps : now + step <= MaxClock /\ now' = now + step
    /\ UNCHANGED << lister, cache, lister_queries, ops, last_call >>
    /\ UNCHANGED setupVars
    /\ UNCHANGED << loaderVars, normVars, entryVars, clientVars >>

\* Another process changes the table the lister reads.
OtherTables == { NoTable, NewTable, [NewTable EXCEPT !.rows = << A, B >>] }
RemoteChange ==
    /\ lister # "none" /\ ops < MaxOps
    /\ db' \in OtherTables \ {db}
    /\ UNCHANGED << db0, trace, batches_done, create_outcome >>
    /\ UNCHANGED listerVars
    /\ UNCHANGED << loaderVars, normVars, entryVars, clientVars >>

\* The envelope of SELECT name FROM sqlite_master WHERE type='table' AND
\* name='wbs': the row of the table when it is there.
MasterRows(table) == IF table.exists THEN << [name |-> "wbs"] >> ELSE << >>
\* "rows": an envelope whose result is the row list itself.
MasterShapes == SelectShapes \cup {"rows"}
MasterEnvelope(shape, rows) ==
    IF shape = "rows" THEN [success |-> TRUE, result |-> rows]
    ELSE SelectEnvelope(shape, rows)
MasterExchanges(table, shape) ==
    IF shape = "failure" THEN StatementFailures
    ELSE { [kind |-> "json", data |-> MasterEnvelope(shape, MasterRows(table))] }

\* check_table_exists() of list_wbs.py:
\*   tables = result.get("result", []); return len(tables) > 0
\* and False when the query raises.  last_call.key keeps the shape of the
\* answer.
TablesFound(result) == Len(Get(result, "result", << >>)) > 0
ListCheckTableExists ==
    /\ lister = "list_wbs" /\ ops < MaxOps
    /\ ops' = ops + 1
    /\ lister_queries' = lister_queries + 1
    /\ \E shape \in MasterShapes \cup {"failure"} :
          \E ex \in MasterExchanges(db, shape) :
              LET r == Query("list_wbs", ex)
              IN  last_call' = [op |-> "check_table_exists", key |-> shape,
                           hit |-> FALSE, raised |-> r.raised,
                           value |-> IF r.raised THEN BoolV(FALSE)
                                     ELSE BoolV(TablesFound(r.value))]
    /\ UNCHANGED << lister, cache, now >>
    /\ UNCHANGED setupVars
    /\ UNCHANGED << loaderVars, normVars, entryVars, clientVars >>

InitLister ==
    /\ lister \in {"app", "list_wbs"}
    /\ cache = EmptyCache /\ now = 0 /\ lister_queries = 0 /\ ops = 0 /\ last_call = NoCall
    /\ db \in OtherTables /\ db0 = db
    /\ trace = << >> /\ batches_done = 0 /\ create_outcome = "none"
    /\ LoaderIdle
    /\ NormIdle
    /\ EntryIdle
    /\ ClientIdle

NextLister ==
    \/ AppGetAllWbsItems
    \/ AppCountWbsItems
    \/ Tick
    \/ RemoteChange
    \/ ListCheckTableExists

SpecLister == InitLister /\ [][NextLister]_vars

\* ============================================================ properties
\* The batch the last remote call belonged to, and whether that batch has
\* just been finished by its per-record fallback.
LastBatch == BatchRecords(hist.stmt_batch)
FallbackFinished == ~hist.open /\ hist.fb # << >>

\* The rows a table holds under one key.
RowsWithKey(table, cde) == SelectSeq(table, LAMBDA r : r.cde = cde)

\* The rows a successful bulk attempt offers for a batch.
BulkRows(batch) ==
    IF loader = "v1" THEN V1Rows(batch)
    ELSE [j \in 1..Len(batch) |-> V2Row(V2BulkParams(batch[j]))]

\* The table a load without failures leaves, by batches of `size` records.
RECURSIVE LoadedStore(_, _, _)
LoadedStore(table, recs, size) ==
    IF recs = << >> THEN table
    ELSE LET n == IF size < Len(recs) THEN size ELSE Len(recs)
         IN  LoadedStore(InsertOrIgnore(table, BulkRows(SubSeq(recs, 1, n))),
                         SubSeq(recs, n + 1, Len(recs)), size)

\* C1 (as claimed): after a first run in which every call succeeded, a
\* second load of the same records by the two-column loader reports
\* inserted = 0 and skipped = the number of records and leaves the table as
\* the first run left it.
C1_SecondLoadInsertsNothing ==
    (loader = "v1" /\ run = 2 /\ pc = "done" /\ hist.first.clean) =>
        /\ total_successful = 0
        /\ total_skipped = Len(records)
        /\ store = hist.first.store

\* C1, for record sequences in which every record has a key (neither None
\* nor the empty string): the part of C1 the code keeps.
C1_SecondLoadInsertsNothingKeyed ==
    (loader = "v1" /\ run = 2 /\ pc = "done" /\ hist.first.clean
       /\ \A j \in 1..Len(records) : ~IsNone(V1Row(records[j]).cde)) =>
        /\ total_successful = 0
        /\ total_skipped = Len(records)
        /\ store = hist.first.store

\* C2: first write wins.  No step of a load run (bulk statement, fallback
\* insert, failed call) changes or removes a stored row: every row is still
\* there afterwards, and a key that had a row has exactly that row.
C2_FirstWriteWins ==
    [][ \A j \in 1..Len(store) :
          /\ j <= Len(store') /\ store'[j] = store[j]
          /\ ~IsNone(store[j].cde) =>
                RowsWithKey(store', store[j].cde) = << store[j] >> ]_vars

\* C2 happens: a run that went through the fallback offered a record under
\* key A with another description than the stored row of A, which is kept.
C2_Witness ==
    /\ pc = "done" /\ hist.failed_calls > 0 /\ hist.raised = 0
    /\ \E j \in 1..Len(records) : BulkRows(records)[j].cde = A
    /\ \E r \in Range(hist.store0) : r.cde = A /\ r \in Range(store)
    /\ \A r \in Range(store) : r.cde = A => r.created = 0

\* C3 (as claimed): when a batch's bulk attempt failed and every per-record
\* fallback insert of the batch succeeded, the table is the one a successful
\* bulk attempt on the table as the batch found it would have left.
C3_FallbackEqualsBulk ==
    (FallbackFinished /\ hist.batch_raised = 0) =>
        store = InsertOrIgnore(hist.before, BulkRows(LastBatch))

\* C3 for the two-column loader alone, where the bulk attempt is one
\* statement.
C3_FallbackEqualsBulkV1 ==
    (loader = "v1" /\ FallbackFinished /\ hist.batch_raised = 0) =>
        store = InsertOrIgnore(hist.before, BulkRows(LastBatch))

\* C4: batch-size invariance.  A finished load in which no record was lost
\* to a failure (two-column loader: no fallback insert raised; 23-column
\* loader: no call failed) leaves the table that the same records, loaded
\* into the same initial table by batches of any other size, leave.
C4_BatchSizeInvariance ==
    (pc = "done" /\ (IF loader = "v1" THEN hist.raised = 0 ELSE hist.failed_calls = 0)) =>
        \A size \in 1..MaxBatch : store = LoadedStore(hist.store0, records, size)

\* C4 happens: three records loaded one per batch, all inserted.
C4_Witness ==
    /\ pc = "done" /\ batch_size = 1 /\ Len(records) = 3 /\ hist.batches = 3
    /\ hist.failed_calls = 0
    /\ Len(store) = Len(hist.store0) + 3

\* C5 (as claimed): in the two-column loader a record whose fallback insert
\* raised is counted neither as inserted nor as skipped-existing, so the two
\* counts of a batch that went through the fallback add up to the records
\* of the batch that did not raise.
C5_RaisedCountedFailed ==
    (loader = "v1" /\ FallbackFinished) =>
        successful_count + skipped_count = Len(LastBatch) - hist.batch_raised

\* The scenario of C5: a 3-record batch, bulk failed, two inserts and one
\* raise in the fallback, ends with inserted = 2 and nothing skipped.
C5_Scenario ==
    (loader = "v1" /\ FallbackFinished /\ Len(LastBatch) = 3
       /\ hist.batch_raised = 1 /\ successful_count = 2) =>
        skipped_count = 0

\* C6: a raising fallback insert never stops the run.  While a fallback
\* runs it has submitted exactly the records before position i, once each
\* and in order; when it is finished it has submitted every record of the
\* batch, once each and in order; and a run ends only after every batch was
\* processed.
NumBatches == (Len(records) + batch_size - 1) \div batch_size
C6_FallbackSubmitsEveryRecord ==
    /\ pc = "fallback" =>
          hist.fb = [j \in 1..(i - 1) |-> batch_start + j]
    /\ FallbackFinished =>
          hist.fb = [j \in 1..Len(LastBatch) |-> hist.stmt_batch + j]
    /\ pc \in {"done", "raised"} => hist.batches = NumBatches

\* C6 happens: the first record of a batch raised in the fallback, the rest
\* of the batch was submitted, and a later batch was processed after it.
C6_Witness ==
    /\ pc = "done" /\ hist.raised > 0 /\ hist.batches = 2
    /\ Len(records) = 3 /\ batch_size = 2
    /\ hist.calls = 3 + 1 /\ hist.failed_calls = 2

\* What an envelope reports as changed rows, if it reports any.
Reported(envelope) ==
    IF /\ "result" \in DOMAIN envelope
       /\ Len(envelope.result) > 0
       /\ "meta" \in DOMAIN envelope.result[1]
       /\ "changes" \in DOMAIN envelope.result[1].meta
    THEN envelope.result[1].meta.changes
    ELSE 0

\* C7: a successful bulk statement of the two-column loader for a batch of
\* n records adds the changed-row count c its response reports to inserted
\* and n - c to skipped; a response without result element or without
\* meta.changes adds 0 and n.
C7_BulkCounts ==
    [][ (loader = "v1" /\ pc = "bulk" /\ pc' # "fallback") =>
          LET n == Len(BatchRecords(batch_start))
              c == Reported(resp')
          IN  /\ total_successful' = total_successful + c
              /\ total_skipped' = total_skipped + (n - c) ]_vars

\* C7 happens: one bulk statement for two records reported one changed row.
C7_Witness ==
    /\ loader = "v1" /\ hist.calls = 1 /\ hist.failed_calls = 0
    /\ Len(records) = 2 /\ batch_size = 2 /\ pc = "done"
    /\ Reported(resp) = 1 /\ total_successful = 1 /\ total_skipped = 1

\* C8 (as claimed): a load of an empty record sequence returns normally
\* with all counts zero and without a remote call.
C8_EmptyLoadReturnsZero ==
    (records = << >> /\ pc # "start") =>
        /\ pc = "done"
        /\ hist.calls = 0
        /\ total_successful = 0 /\ total_skipped = 0 /\ failed_records = 0

\* C8 for the two-column loader alone.
C8_EmptyLoadReturnsZeroV1 ==
    (loader = "v1" /\ records = << >> /\ pc # "start") =>
        /\ pc = "done"
        /\ hist.calls = 0
        /\ total_successful = 0 /\ total_skipped = 0

\* C9: batches are processed in submission order, one at a time, and no
\* call removes or alters a stored row.  Every remote call belongs to the
\* batch after the batches already finished; it belongs to a new batch only
\* when no batch is open; and every stored row is unchanged by it.
C9_BatchesInOrder ==
    [][ (hist'.calls = hist.calls + 1) =>
          /\ hist'.stmt_batch = hist.batches * batch_size
          /\ hist.open => hist'.stmt_batch = hist.stmt_batch
          /\ ~hist.open => hist'.stmt_batch > hist.stmt_batch
          /\ \A j \in 1..Len(store) : j <= Len(store') /\ store'[j] = store[j] ]_vars

\* C9 happens: the first batch committed rows, then a later batch failed
\* and one of its records raised; the rows of the first batch are stored.
C9_Witness ==
    /\ pc = "done" /\ hist.batches = 2 /\ hist.calls = 1 + 3
    /\ hist.raised = 1 /\ hist.batch_raised = 1
    /\ Len(store) > Len(hist.store0)

\* C20: a step in which the bulk statement of a batch fails, whatever the
\* failure (transport, HTTP status, unparseable body, envelope without
\* success), leaves the run in the per-record fallback of the same batch at
\* its first record, with the table and the totals as they were; and from
\* the fallback the run never goes back to the bulk statement of the same
\* batch: the next bulk statement belongs to a later batch.
C20_BulkFailureDemotes ==
    [][ /\ (pc = "bulk" /\ hist'.failed_calls = hist.failed_calls + 1) =>
              /\ pc' = "fallback" /\ i' = 1
              /\ batch_start' = batch_start
              /\ store' = store
              /\ hist'.stmt_batch = batch_start
        /\ (pc = "fallback" /\ pc' = "bulk") => batch_start' > batch_start
        /\ (pc = "fallback" /\ pc' = "fallback") => batch_start' = batch_start ]_vars

\* C20 happens: the bulk statement of the first batch failed, its fallback
\* submitted every record of it, and the run is at the bulk statement of
\* the second batch, two calls later than the records of the first batch.
C20_Witness ==
    /\ pc = "bulk" /\ batch_start = 2 /\ batch_size = 2
    /\ hist.failed_calls = 1 /\ hist.batches = 1
    /\ hist.fb = << 1, 2 >>
    /\ ~hist.open


\* The error main ended with is the one of the table creation.
CreationError ==
    /\ epc = "exit" /\ exit_status # 0 /\ error.msg # << >>
    /\ error.msg[1] \in {"Failed to create table: ", "Database setup failed: "}

\* The table setup of the loader that runs, on its last CREATE TABLE.
SetupRules(loaders) ==
    entry \in loaders =>
        /\ create_outcome = "failed" => (CreationError /\ "insert" \notin Range(trace))
        /\ create_outcome = "exists" => ~CreationError
        /\ (db0.exists /\ Range(trace) \cap {"delete", "insert"} = {}) =>
              (db.exists /\ db.rows = db0.rows)

\* C21 (as claimed): in both loaders a table creation that failed ended the
\* run before any insert, unless the failure text held "already exists",
\* and then the run was not ended by it; and as long as nothing was deleted
\* or inserted, a table that was there when the script started is there with
\* the rows it had.
C21_CreationFailureFatal == SetupRules({"wbs_loader", "wbs_loader_v2"})

\* The part of C21 the code has: wbs_loader_v2.py.
C21_CreationFailureFatalV2 == SetupRules({"wbs_loader_v2"})

\* wbs_loader_v2.py passed over "already exists" on a table with a row and
\* went on to the insert with the row in place.
C21_WitnessV2 ==
    /\ entry = "wbs_loader_v2" /\ create_outcome = "exists"
    /\ db0.rows = << A >> /\ db.rows = << A >>
    /\ "insert" \in Range(trace)

\* The rows of a table whose key is NULL, and the records of a batch whose
\* key parameter is null (a key that is None or the empty string).
NullRows(table) == SelectSeq(table, LAMBDA row : IsNone(row.cde))
NullKeyed(batch) ==
    SelectSeq(batch, LAMBDA record : IsNone(ParamOf(Get(record, "WBS_ELEMENT_CDE", Empty))))

\* C22: wbs_loader.py filters no record out for its null key.  A bulk
\* statement that succeeds leaves one new row with a NULL key for every
\* record of its batch whose key is null, in the order of the records; the
\* fallback submits the record at its position whatever its key, and a
\* fallback insert of a record with a null key that succeeds adds its row
\* with a NULL key.
C22_NullKeySubmitted ==
    [][ loader = "v1" =>
          LET ok == hist'.calls = hist.calls + 1 /\ hist'.failed_calls = hist.failed_calls
              batch == BatchRecords(batch_start)
          IN  /\ (pc = "bulk" /\ ok) =>
                    NullRows(store') = NullRows(store) \o
                        [j \in 1..Len(NullKeyed(batch)) |-> V1Row(NullKeyed(batch)[j])]
              /\ (pc = "fallback" /\ hist'.calls = hist.calls + 1) =>
                    hist'.fb = Append(hist.fb, batch_start + i)
              /\ (pc = "fallback" /\ ok /\ NullKeyed(<< batch[i] >>) # << >>) =>
                    store' = Append(store, V1Row(batch[i])) ]_vars

\* C22 happens: two records without a key, one batch; the bulk statement
\* failed, the fallback submitted both, and the table holds both rows with
\* a NULL key.
C22_Witness ==
    /\ loader = "v1" /\ pc = "done" /\ run = 1
    /\ Len(records) = 2 /\ batch_size = 2
    /\ NullKeyed(records) = records
    /\ hist.store0 = << >> /\ hist.failed_calls = 1 /\ hist.fb = << 1, 2 >>
    /\ Len(store) = 2 /\ NullRows(store) = store

\* C23: a call of get_all_wbs_items or count_wbs_items of app.py whose key
\* has an entry stored less than 300 seconds before sends no query, returns
\* the stored value (an empty list and the count 0 included) and leaves the
\* cache as it is; a call whose key has no entry, or one stored 300 seconds
\* before or earlier, sends one query, and unless that raises the entry of
\* the key becomes the value returned with the time of the call, the other
\* entries staying as they are.
C23_CacheFreshness ==
    [][ (lister = "app" /\ ops' = ops + 1) =>
          LET key == last_call'.key
              young == cache[key].present /\ now - cache[key].timestamp < 300
          IN  /\ young =>
                    /\ lister_queries' = lister_queries
                    /\ last_call'.hit /\ ~last_call'.raised
                    /\ last_call'.value = cache[key].data
                    /\ cache' = cache
              /\ ~young =>
                    /\ lister_queries' = lister_queries + 1
                    /\ ~last_call'.hit
                    /\ \A other \in CacheKeys \ {key} : cache'[other] = cache[other]
                    /\ IF last_call'.raised
                       THEN cache'[key] = cache[key]
                       ELSE cache'[key] = [present |-> TRUE, data |-> last_call'.value,
                                           timestamp |-> now] ]_vars

\* C23 happens: three calls of count_wbs_items on a table that was empty at
\* first, and two queries: one call was answered from the cache, and 300
\* seconds after the start the query was sent again and the entry replaced
\* by the count 2.
C23_Witness ==
    /\ lister = "app" /\ ops = 3 /\ lister_queries = 2
    /\ last_call.key = "wbs_count" /\ ~last_call.hit /\ ~last_call.raised
    /\ now = 300
    /\ cache["wbs_count"] = [present |-> TRUE, data |-> IntV(2), timestamp |-> 300]
    /\ \A key \in CacheKeys \ {"wbs_count"} : ~cache[key].present
    /\ db0 = NewTable

\* C24 (as the specification states it): check_table_exists() of list_wbs.py
\* answers true exactly when the table wbs is there: false when the table is
\* absent (the query finds no row) and false when the query raises.
C24_TableExistsIffPresent ==
    [][ (lister = "list_wbs" /\ ops' = ops + 1) =>
          last_call'.value = BoolV(~last_call'.raised /\ db.exists) ]_vars

\* What the code does hold: false when the query raises, and otherwise true
\* exactly when the list under the key result is not empty, which is the row
\* list only in an answer of the shape "rows".
C24_TableExistsByResultLength ==
    [][ (lister = "list_wbs" /\ ops' = ops + 1) =>
          /\ last_call'.raised => last_call'.value = BoolV(FALSE)
          /\ (~last_call'.raised /\ last_call'.key = "rows") =>
                last_call'.value = BoolV(db.exists)
          /\ (~last_call'.raised /\ last_call'.key = "sets") =>
                last_call'.value = BoolV(TRUE) ]_vars

\* C24's failing case: the table is absent, the query succeeded with one
\* result set of no rows, and check_table_exists() answered true.
C24_Scenario ==
    /\ lister = "list_wbs" /\ ops = 1 /\ ~db.exists /\ db0 = db
    /\ last_call.op = "check_table_exists" /\ last_call.key = "sets"
    /\ ~last_call.raised /\ last_call.value = BoolV(TRUE)

\* C25: outcome conservation in the two-column loader.  Both counts are
\* never negative; before each batch the totals add up to the records of the
\* batches finished, inside a fallback the totals and the fallback's counts
\* add up to the records handled so far, and when
\* batch_insert_wbs_records returns, successful + skipped is the number of
\* input records, whatever failed.
C25_OutcomeConservation ==
    loader = "v1" =>
        /\ total_successful >= 0 /\ total_skipped >= 0
        /\ successful_count >= 0 /\ skipped_count >= 0
        /\ pc = "bulk" => total_successful + total_skipped = batch_start
        /\ pc = "fallback" =>
              total_successful + total_skipped + successful_count + skipped_count
                  = batch_start + i - 1
        /\ pc = "done" => total_successful + total_skipped = Len(records)

\* C25 happens: three records in two batches, a bulk statement and a
\* per-record insert raised, and the run returned with records in both
\* outcomes.
C25_Witness ==
    /\ loader = "v1" /\ pc = "done" /\ run = 1
    /\ Len(records) = 3 /\ batch_size = 2 /\ hist.batches = 2
    /\ hist.failed_calls >= 2 /\ hist.raised = 1
    /\ total_successful = 2 /\ total_skipped = 1

\* ceil(n / b): the least k with k * b >= n.
CeilDiv(n, b) == CHOOSE k \in 0..n : k * b >= n /\ \A j \in 0..(k - 1) : j * b < n

\* C26: batch partition.  The batches of n records with batch size b start
\* at 0, b, 2b, ...; each begins where the one before ends and the last ends
\* at n, so they are contiguous, disjoint and cover every record once in
\* input order; each holds at most b records and exactly b except possibly
\* the last; there are ceil(n / b) of them, which is the count both loaders
\* report; and a run works on them in this order and has finished this many
\* when it returns.
C26_BatchPartition ==
    LET n == Len(records)
        b == batch_size
        starts == PyRange(0, n, b)
        count == Len(starts)
    IN  /\ \A k \in 1..count :
              /\ starts[k] = (k - 1) * b
              /\ BatchRecords(starts[k]) =
                    [j \in 1..(BatchEnd(starts[k]) - starts[k]) |-> records[starts[k] + j]]
              /\ Len(BatchRecords(starts[k])) >= 1
              /\ Len(BatchRecords(starts[k])) <= b
              /\ k < count => Len(BatchRecords(starts[k])) = b
              /\ BatchEnd(starts[k]) = IF k < count THEN starts[k + 1] ELSE n
        /\ count = CeilDiv(n, b)
        /\ ReportedBatches = CeilDiv(n, b)
        /\ total_batches = CeilDiv(n, b)
        /\ pc \in {"bulk", "fallback"} =>
              /\ hist.batches < count
              /\ batch_start = starts[hist.batches + 1]
        /\ pc = "done" => hist.batches = count

\* C26 happens: the column loader finished three records in two batches of
\* two and one, both by their bulk statements.
C26_Witness ==
    /\ loader = "v2" /\ pc = "done" /\ run = 1
    /\ Len(records) = 3 /\ batch_size = 2
    /\ hist.batches = 2 /\ successful_batches = 2 /\ total_batches = 2

\* The place in the order of statements of the statement the run issues
\* next: the bulk statement of the batch at batch_start, then the inserts of
\* its records one by one, then the bulk statement of the next batch.
StatementRank == IF pc = "fallback" THEN 2 * batch_start + i ELSE 2 * batch_start

\* C27: a run of the two-column loader terminates.  It never issues more
\* than ceil(n / b) + n remote statements; after every statement, failed or
\* not, it has returned or the statement it issues next is a later one, so
\* no statement is issued again; and every run that started returns.
C27_LoadTerminates ==
    /\ [](hist.calls <= CeilDiv(Len(records), batch_size) + Len(records))
    /\ [][ (hist'.calls = hist.calls + 1) =>
             (pc' = "done" \/ StatementRank' > StatementRank) ]_vars
    /\ ((pc # "done") ~> (pc = "done"))

\* C27 happens: three records in batches of two, every statement raised:
\* two bulk statements and three inserts were issued, none twice, and the
\* run returned with all three records skipped.
C27_Witness ==
    /\ loader = "v1" /\ pc = "done"
    /\ Len(records) = 3 /\ batch_size = 2
    /\ hist.calls = 5 /\ hist.failed_calls = 5 /\ hist.raised = 3
    /\ total_successful = 0 /\ total_skipped = 3

\* A row of the frame after coercion, and whether every column of it is
\* missing.
Coerced(pos) == CleanRow(df[pos])
FullyEmpty(row) == \A col \in DOMAIN row : IsNa(row[col])
Kept(pos) == \E j \in 1..Len(df_clean) : df_clean[j].pos = pos

\* C28 (as the specification states it): the normalizer loses nothing but
\* duplicates and empty rows.  Every row that is not fully empty after
\* coercion and whose key no earlier row that is not fully empty carries is
\* in the cleaned frame.
C28_LosesOnlyDuplicatesAndEmpty ==
    npc = "cleaned" =>
        \A pos \in 1..Len(df) :
            ( /\ ~FullyEmpty(Coerced(pos))
              /\ \A k \in 1..(pos - 1) :
                    FullyEmpty(Coerced(k)) \/ Coerced(k)[KeyColumn] # Coerced(pos)[KeyColumn] )
            => Kept(pos)

\* What the code does hold: a row that is not fully empty is kept when no
\* earlier row at all, the fully empty ones included, carries its key.
C28_LosesOnlyLaterKeysAndEmpty ==
    npc = "cleaned" =>
        \A pos \in 1..Len(df) :
            ( /\ ~FullyEmpty(Coerced(pos))
              /\ \A k \in 1..(pos - 1) : Coerced(k)[KeyColumn] # Coerced(pos)[KeyColumn] )
            => Kept(pos)

\* C28's failing case: a fully empty row followed by a row with a name and
\* no key; the cleaned frame is empty.
C28_Scenario ==
    /\ npc = "cleaned" /\ Len(df) = 2
    /\ FullyEmpty(Coerced(1))
    /\ IsNa(Coerced(2)[KeyColumn]) /\ Coerced(2)["WBS_ELEMENT_NME"] = X
    /\ df_clean = << >> /\ duplicates = 1

\* successful_records = total_records - failed_records
successful_records == total_records - failed_records

\* C29: failure accounting in the column loader.  Throughout
\* bulk_insert_data failed_records lies between 0 and total_records: before
\* a batch and at the end it is the number of records whose fallback insert
\* raised, and during a fallback it is that number for the earlier batches
\* plus the length of the batch in the fallback.  The fallback submits every
\* record of its batch again, those the first pass inserted included, and
\* successful_records is never negative.
C29_FailureAccounting ==
    (loader = "v2" /\ pc # "start") =>
        /\ 0 <= failed_records /\ failed_records <= total_records
        /\ successful_records >= 0
        /\ pc \in {"bulk", "done"} => failed_records = hist.raised
        /\ pc = "fallback" =>
              /\ failed_records =
                    hist.raised - hist.batch_raised + Len(BatchRecords(batch_start))
              /\ failures = hist.batch_raised
              /\ hist.fb = [j \in 1..(i - 1) |-> batch_start + j]

\* C29 happens: in the first batch of two the second statement raised, the
\* fallback inserted the first record again and the second raised again;
\* the run ended with one failed record out of three.
C29_Witness ==
    /\ loader = "v2" /\ pc = "done" /\ run = 1
    /\ Len(records) = 3 /\ batch_size = 2
    /\ hist.calls = 5 /\ hist.failed_calls = 2 /\ hist.raised = 1
    /\ failed_records = 1 /\ successful_records = 2 /\ successful_batches = 1

\* The places of a step in the trace of main.
At(step) == { k \in 1..Len(trace) : trace[k] = step }

\* C30: the order of a run of wbs_loader_v2.py.  The workbook is loaded
\* (its columns validated) and cleaned before the table is created; the
\* table is created before any insert; the DELETE is sent at most once, only
\* right after the operator answered y, and before the first insert; the
\* verification is the last step and comes when every batch is done; and a
\* DELETE that failed leaves the run going: the batches follow it.
C30_RunOrder ==
    entry = "wbs_loader_v2" =>
        /\ \A c \in At("create") :
              \E l \in At("load"), n \in At("clean") : l < n /\ n < c
        /\ \A k \in At("insert") : \E c \in At("create") : c < k
        /\ Cardinality(At("delete")) <= 1
        /\ \A d \in At("delete") :
              /\ d > 2 /\ trace[d - 1] = "y" /\ trace[d - 2] = "prompt"
              /\ \A k \in At("insert") : d < k
        /\ \A a \in At("prompt") :
              /\ a < Len(trace)
              /\ trace[a + 1] # "y" => At("delete") = {}
              /\ \A k \in At("insert") : a < k
        /\ \A v \in At("verify") :
              /\ v = Len(trace)
              /\ batches_done = MainBatches
              /\ Cardinality(At("insert")) = MainBatches
        /\ \A f \in At("delete failed") :
              /\ trace[f - 1] = "delete"
              /\ (f = Len(trace) /\ MainBatches > 0) =>
                    (epc = "cleared" /\ exit_status = 0 /\ error = NoError)
              /\ epc = "exit" => Cardinality(At("insert")) = MainBatches

\* C30 happens: a run over 26 rows in which the operator answered y, the
\* DELETE failed, both batches were sent, the verification ran and main
\* ended with status 0.
C30_Witness ==
    /\ entry = "wbs_loader_v2" /\ epc = "exit" /\ exit_status = 0
    /\ trace = << "load", "clean", "create", "prompt", "y", "delete", "delete failed",
                  "insert", "insert", "verify" >>


====
